---- MODULE Spec2Model ----
(***************************************************************************)
(* Session State Manager of linseGenerator                                 *)
(* (src/src/modules/stateManager/manager.ts and its collaborators).        *)
(*                                                                         *)
(* The two registries of StateManager are JavaScript Maps; a Map iterates  *)
(* in insertion order, and createSession, rollbackToSnapshot and           *)
(* cleanupInactiveSessions all iterate, so a Map is modelled as the        *)
(* sequence of its entries [k, v] in insertion order.                      *)
(*                                                                         *)
(* randomUUID() is modelled as a counter handing out fresh numbers, and    *)
(* Date.now() as the variable now, which only Tick advances.               *)
(***************************************************************************)
EXTENDS Integers, Sequences, FiniteSets, TLC

\* ---------------------------------------------------------------- bounds

\* Number of session ids randomUUID() hands out in one behaviour.
MaxIds == 3
\* Number of snapshot ids randomUUID() hands out in one behaviour.
MaxSnapIds == 3
\* Last instant of the clock.
MaxTime == 1
\* options.limits.maxSessions, scaled down (config.ts: 1000, tests: 10).
MaxSessions == 2
\* options.limits.maxSnapshots, scaled down (config.ts: 50).
MaxSnapshots == 2
\* options.limits.maxContextSize, scaled down (config.ts: 100 * 1024).
MaxContextSize == 190
\* Largest number of entries a caller puts into one context sub-collection.
MaxEntries == 2
\* Largest totalGenerations a caller drives a session to.
MaxGenerations == 3
\* Largest count a caller drives a tool-usage or hybrid counter to.
MaxCount == 1
\* Number of times the caller imports an export document.
MaxImports == 1
\* Number of snapshots the caller takes where one snapshot shows the case.
MaxFewSnapshots == 1
\* Number of sessions the caller creates where one session shows the case.
MaxFewSessions == 1
MaxLog == 6
MaxFewCalls == 2

MaxSuspended == 2

MaxInits == 2

\* ---------------------------------------------------------------- values

SessionIds == 1..MaxIds
SnapIds == 1..MaxSnapIds

UserIds == {"u1", "anonymous"}
Problems == {"", "p"}
Tools ==
  {"generate_creative_lens_prompt", "evolve_idea_with_structure",
   "create_hybrid_framework"}

\* The absent value (undefined / null).
None == [none |-> TRUE]

\* The empty object {}.
EmptyObj == [k \in {} |-> 0]

\* { ...a, ...b } on plain objects.
Spread(a, b) ==
  [k \in (DOMAIN a) \cup (DOMAIN b) |-> IF k \in DOMAIN b THEN b[k] ELSE a[k]]

\* ------------------------------------------------------------ JS Map

MapKeys(m) == { m[i].k : i \in 1..Len(m) }

MapHas(m, key) == key \in MapKeys(m)

MapIndex(m, key) == CHOOSE i \in 1..Len(m) : m[i].k = key

\* Map.prototype.get: the value, or undefined.
MapGet(m, key) == IF MapHas(m, key) THEN m[MapIndex(m, key)].v ELSE None

\* Map.prototype.set: an existing key keeps its place, a new key goes last.
MapSet(m, key, val) ==
  IF MapHas(m, key)
  THEN [m EXCEPT ![MapIndex(m, key)] = [k |-> key, v |-> val]]
  ELSE Append(m, [k |-> key, v |-> val])

\* Map.prototype.delete.
MapDelete(m, key) == SelectSeq(m, LAMBDA e : e.k # key)

\* ------------------------------------------------------------ the state

VARIABLES
  sessions,    \* StateManager.sessions : Map<string, Session>
  snapshots,   \* StateManager.snapshots : Map<string, StateSnapshot[]>
  memoryStore, \* PersistenceHandler.memoryStore, the durable copy
  blob,        \* the export document the caller holds (None: none yet)
  now,         \* Date.now()
  nextId,      \* next session id of randomUUID()
  nextSnapId,  \* next snapshot id of randomUUID()
  last,        \* the most recent call of the public API and how it returned
  snapLog,     \* history: per session id, the snapshot ids createSnapshot made
  captured,    \* history: per snapshot id, the metrics of the session at capture
  metricLog,   \* history: per session id, the totalGenerations and
               \* madnessIndex calls updateMetrics served, in order
  autoSave,    \* createAutoSaveMiddleware: lastSave, the hook invocations
               \* suspended in saveState, history: when each save started
  timers       \* the interval handles the manager holds, the intervals that
               \* are set, history: whether shutdown has completed

vars == <<sessions, snapshots, memoryStore, blob, now, nextId, nextSnapId,
          last, snapLog, captured, metricLog, autoSave, timers>>

\* A call record: the operation, its id argument, its outcome
\* ("ok", "NotFound", "TypeError", "Error") and the number it returned (-1: none).
Call(op, id, out, ret) == [op |-> op, id |-> id, out |-> out, ret |-> ret]

\* ------------------------------------------------------- createSession

\* A tool-usage table with no tool counted.
NoCounts == [t \in Tools |-> 0]

\* createDefaultMetrics()
createDefaultMetrics ==
  [ totalGenerations |-> 0,
    averageMadnessIndex |-> [num |-> 0, den |-> 1],
    uniqueDomainsUsed |-> [kind |-> "Set", members |-> {}],
    successfulHybrids |-> 0,
    toolUsage |-> [kind |-> "Map", counts |-> NoCounts] ]

NewSession(id, userId, initialProblem, t) ==
  [ id |-> id,
    userId |-> userId,
    startTime |-> t,
    lastActivity |-> t,
    context |-> [ currentProblem |-> initialProblem,
                  generatedLenses |-> << >>,
                  evolutionChains |-> << >>,
                  hybridAttempts |-> << >> ],
    metrics |-> createDefaultMetrics,
    preferences |-> EmptyObj ]

\* An eviction that picks the most recently active session.
OldestSession_newest(m) ==
  LET i == CHOOSE i \in 1..Len(m) :
             /\ \A j \in 1..Len(m) : m[j].v.lastActivity <= m[i].v.lastActivity
             /\ \A j \in 1..Len(m) :
                  m[j].v.lastActivity = m[i].v.lastActivity => j <= i
  IN m[i].v

\* Array.prototype.sort is stable: of the entries with the smallest
\* lastActivity, the first in the Map's iteration order comes out at [0].
OldestSession(m) ==
  LET i == CHOOSE i \in 1..Len(m) :
             /\ \A j \in 1..Len(m) : m[i].v.lastActivity <= m[j].v.lastActivity
             /\ \A j \in 1..Len(m) :
                  m[j].v.lastActivity = m[i].v.lastActivity => i <= j
  IN m[i].v

\* deleteSession's effect on the two registries.
DeleteFrom(m, sessionId) == MapDelete(m, sessionId)

\* The registries after createSession's eviction step.
Evicted(m, s) ==
  IF Len(m) >= MaxSessions /\ Len(m) > 0
  THEN [ sessions |-> DeleteFrom(m, OldestSession(m).id),
         snapshots |-> DeleteFrom(s, OldestSession(m).id) ]
  ELSE [ sessions |-> m, snapshots |-> s ]

CreateSession(userId, initialProblem) ==
  /\ nextId <= MaxIds
  /\ LET ev == Evicted(sessions, snapshots)
     IN /\ sessions' = MapSet(ev.sessions, nextId,
                              NewSession(nextId, userId, initialProblem, now))
        /\ snapshots' = ev.snapshots
  /\ nextId' = nextId + 1
  /\ last' = Call("createSession", nextId, "ok", nextId)
  /\ UNCHANGED <<memoryStore, blob, now, nextSnapId, snapLog, captured, metricLog, autoSave, timers>>

\* ------------------------------------------------------- deleteSession

\* A deleteSession that removes the session and leaves its snapshot list.
DeleteSession_keepsSnapshots(sessionId) ==
  /\ sessions' = DeleteFrom(sessions, sessionId)
  /\ last' = Call("deleteSession", sessionId, "ok",
                  IF MapHas(sessions, sessionId) THEN 1 ELSE 0)
  /\ UNCHANGED <<snapshots, memoryStore, blob, now, nextId, nextSnapId, snapLog, captured, metricLog, autoSave, timers>>

DeleteSession(sessionId) ==
  /\ snapshots' = DeleteFrom(snapshots, sessionId)
  /\ sessions' = DeleteFrom(sessions, sessionId)
  /\ last' = Call("deleteSession", sessionId, "ok",
                  IF MapHas(sessions, sessionId) THEN 1 ELSE 0)
  /\ UNCHANGED <<memoryStore, blob, now, nextId, nextSnapId, snapLog, captured, metricLog, autoSave, timers>>

\* ------------------------------------------------------ createSnapshot

\* JSON.parse(JSON.stringify(session)): the context, the numbers and the
\* strings come back as they were; a Set and a Map both serialize as "{}"
\* and come back as a plain empty object.
JsonClone(session) ==
  [session EXCEPT !.metrics.uniqueDomainsUsed =
                     IF @.kind \in {"Set", "Object"}
                     THEN [kind |-> "Object", members |-> {}] ELSE @,
                  !.metrics.toolUsage =
                     IF @.kind \in {"Map", "Object"}
                     THEN [kind |-> "Object", counts |-> NoCounts] ELSE @]

\* listSnapshots: this.snapshots.get(sessionId) || []
ListSnapshots(s, sessionId) ==
  IF MapHas(s, sessionId) THEN MapGet(s, sessionId) ELSE << >>

\* A push that never drops the oldest snapshot.
PushCapped_noShift(list, snapshot) == Append(list, snapshot)

\* push, then shift when the list is longer than maxSnapshots.
PushCapped(list, snapshot) ==
  LET pushed == Append(list, snapshot)
  IN IF Len(pushed) > MaxSnapshots THEN Tail(pushed) ELSE pushed

\* A createSnapshot without the not-found check.
CreateSnapshot_lenient(sessionId) ==
  /\ snapshots' = MapSet(snapshots, sessionId,
                         ListSnapshots(snapshots, sessionId))
  /\ last' = Call("createSnapshot", sessionId, "ok", -1)
  /\ UNCHANGED <<sessions, memoryStore, blob, now, nextId, nextSnapId,
                 snapLog, captured, metricLog, autoSave, timers>>

CreateSnapshot(sessionId) ==
  /\ IF ~MapHas(sessions, sessionId)
     THEN /\ last' = Call("createSnapshot", sessionId, "NotFound", -1)
          /\ UNCHANGED <<snapshots, nextSnapId, snapLog, captured, metricLog, autoSave, timers>>
     ELSE LET session == MapGet(sessions, sessionId)
              snapshot == [ id |-> nextSnapId,
                            sessionId |-> sessionId,
                            timestamp |-> now,
                            state |-> JsonClone(session) ]
          IN /\ nextSnapId <= MaxSnapIds
             /\ snapshots' = MapSet(snapshots, sessionId,
                               PushCapped(ListSnapshots(snapshots, sessionId),
                                          snapshot))
             /\ nextSnapId' = nextSnapId + 1
             /\ snapLog' = [snapLog EXCEPT ![sessionId] = Append(@, nextSnapId)]
             /\ captured' = [captured EXCEPT ![nextSnapId] = session.metrics]
             /\ last' = Call("createSnapshot", sessionId, "ok", nextSnapId)
  /\ UNCHANGED <<sessions, memoryStore, blob, now, nextId, metricLog, autoSave, timers>>

\* -------------------------------------------------- rollbackToSnapshot

\* The first entry of the snapshot registry, in iteration order, whose list
\* holds a snapshot with this id (0: none).
FindSnapshotEntry(s, snapshotId) ==
  LET hits == { i \in 1..Len(s) :
                  \E j \in 1..Len(s[i].v) : s[i].v[j].id = snapshotId }
  IN IF hits = {} THEN 0 ELSE CHOOSE i \in hits : \A h \in hits : i <= h

\* snapshots.find(s => s.id === snapshotId)
FindInList(list, snapshotId) ==
  list[CHOOSE j \in 1..Len(list) :
         /\ list[j].id = snapshotId
         /\ \A h \in 1..Len(list) : list[h].id = snapshotId => j <= h]

RollbackToSnapshot(snapshotId) ==
  /\ LET i == FindSnapshotEntry(snapshots, snapshotId)
     IN IF i = 0
        THEN /\ last' = Call("rollbackToSnapshot", snapshotId, "NotFound", -1)
             /\ UNCHANGED sessions
        ELSE LET snapshot == FindInList(snapshots[i].v, snapshotId)
                 restoredSession == JsonClone(snapshot.state)
             IN /\ sessions' = MapSet(sessions, snapshots[i].k, restoredSession)
                /\ last' = Call("rollbackToSnapshot", snapshotId, "ok",
                                snapshots[i].k)
  /\ UNCHANGED <<snapshots, memoryStore, blob, now, nextId, nextSnapId, snapLog, captured, metricLog, autoSave, timers>>

\* -------------------------------------------------------- addToContext

\* The entries addToContext builds from its data argument.
LensEntry(data, t) ==
  [timestamp |-> t, prompt |-> data.prompt, domains |-> data.domains]

HybridEntry(data, t) ==
  [ideaA |-> data.ideaA, ideaB |-> data.ideaB, method |-> data.method,
   result |-> data.result, timestamp |-> t]

\* evolutionChains.find(c => c.originalIdea === data.originalIdea): its
\* index, 0 when there is none.
FindChain(chains, originalIdea) ==
  LET hits == { i \in 1..Len(chains) : chains[i].originalIdea = originalIdea }
  IN IF hits = {} THEN 0 ELSE CHOOSE i \in hits : \A h \in hits : i <= h

\* An addToContext that starts a new chain on every call.
AddEvolution_newChain(chains, data) ==
  Append(chains, [originalIdea |-> data.originalIdea,
                  stages |-> <<data.stage>>,
                  currentStage |-> 0])

AddEvolution(chains, data) ==
  LET i == FindChain(chains, data.originalIdea)
  IN IF i # 0
     THEN [chains EXCEPT ![i] =
             [@ EXCEPT !.stages = Append(@, data.stage),
                       !.currentStage = Len(chains[i].stages)]]
     ELSE Append(chains, [originalIdea |-> data.originalIdea,
                          stages |-> <<data.stage>>,
                          currentStage |-> 0])

\* The context after the switch on contextType.
AddedContext(context, contextType, data, t) ==
  CASE contextType = "lens" ->
         [context EXCEPT !.generatedLenses = Append(@, LensEntry(data, t))]
    [] contextType = "evolution" ->
         [context EXCEPT !.evolutionChains = AddEvolution(@, data)]
    [] contextType = "hybrid" ->
         [context EXCEPT !.hybridAttempts = Append(@, HybridEntry(data, t))]
    [] OTHER -> context

\* The number of entries of the three sub-collections (stages included).
ContextEntries(context) ==
  LET StageCount[i \in 0..Len(context.evolutionChains)] ==
        IF i = 0 THEN 0
        ELSE StageCount[i - 1] + Len(context.evolutionChains[i].stages)
  IN Len(context.generatedLenses) + Len(context.hybridAttempts)
       + StageCount[Len(context.evolutionChains)]

\* An addToContext that reports a missing session.
AddToContext_strict(sessionId, contextType, data) ==
  /\ last' = Call("addToContext", sessionId,
                  IF MapHas(sessions, sessionId) THEN "ok" ELSE "NotFound", -1)
  /\ UNCHANGED <<sessions, snapshots, memoryStore, blob, now, nextId,
                 nextSnapId, snapLog, captured, metricLog, autoSave, timers>>

AddToContext(sessionId, contextType, data) ==
  /\ IF ~MapHas(sessions, sessionId)
     THEN UNCHANGED sessions
     ELSE LET session == MapGet(sessions, sessionId)
          IN /\ ContextEntries(session.context) < MaxEntries
             /\ sessions' = MapSet(sessions, sessionId,
                  [session EXCEPT
                     !.context = AddedContext(@, contextType, data, now),
                     !.lastActivity = now])
  /\ last' = Call("addToContext", sessionId, "ok", -1)
  /\ UNCHANGED <<snapshots, memoryStore, blob, now, nextId, nextSnapId, snapLog, captured, metricLog, autoSave, timers>>

\* ------------------------------------------------------- updateMetrics

RECURSIVE Gcd(_, _)
Gcd(a, b) == IF b = 0 THEN a ELSE Gcd(b, a % b)

\* A fraction in lowest terms.
Fraction(n, d) ==
  LET g == Gcd(n, d) IN [num |-> n \div g, den |-> d \div g]

\* A fold that adds the value up instead of averaging it in.
FoldMadness_total(currentAvg, totalGenerations, value) ==
  Fraction(currentAvg.num + value * currentAvg.den, currentAvg.den)

\* An average that weighs the new value against the old average alone.
FoldMadness_halves(currentAvg, totalGenerations, value) ==
  Fraction(currentAvg.num + value * currentAvg.den, currentAvg.den * 2)

\* (currentAvg * (count - 1) + value) / count, count = totalGenerations || 1.
FoldMadness(currentAvg, totalGenerations, value) ==
  LET count == IF totalGenerations = 0 THEN 1 ELSE totalGenerations
  IN Fraction(currentAvg.num * (count - 1) + value * currentAvg.den,
              currentAvg.den * count)

\* Whether the switch on metric throws: .add on a value that is no Set,
\* .get on a value that is no Map.
MetricThrows(metrics, metric) ==
  \/ metric = "domain" /\ metrics.uniqueDomainsUsed.kind # "Set"
  \/ metric = "toolUsage" /\ metrics.toolUsage.kind # "Map"

UpdatedMetrics(metrics, metric, value) ==
  CASE metric = "totalGenerations" ->
         [metrics EXCEPT !.totalGenerations = @ + 1]
    [] metric = "madnessIndex" ->
         [metrics EXCEPT !.averageMadnessIndex =
            FoldMadness(@, metrics.totalGenerations, value)]
    [] metric = "domain" ->
         [metrics EXCEPT !.uniqueDomainsUsed.members = @ \cup {value}]
    [] metric = "successfulHybrid" ->
         [metrics EXCEPT !.successfulHybrids = @ + 1]
    [] metric = "toolUsage" ->
         [metrics EXCEPT !.toolUsage.counts[value] = @ + 1]
    [] OTHER -> metrics

\* The counters a caller may still raise within the bounds of the model.
MetricInBounds(metrics, metric, value) ==
  /\ metric = "totalGenerations" => metrics.totalGenerations < MaxGenerations
  /\ metric = "successfulHybrid" => metrics.successfulHybrids < MaxCount
  /\ metric = "toolUsage" /\ metrics.toolUsage.kind = "Map" =>
       metrics.toolUsage.counts[value] < MaxCount

UpdateMetrics(sessionId, metric, value) ==
  /\ IF ~MapHas(sessions, sessionId)
     THEN /\ last' = Call("updateMetrics", sessionId, "ok", -1)
          /\ UNCHANGED sessions
     ELSE LET session == MapGet(sessions, sessionId)
          IN /\ MetricInBounds(session.metrics, metric, value)
             /\ IF MetricThrows(session.metrics, metric)
                THEN /\ last' = Call("updateMetrics", sessionId, "TypeError", -1)
                     /\ UNCHANGED sessions
                ELSE /\ sessions' = MapSet(sessions, sessionId,
                          [session EXCEPT
                             !.metrics = UpdatedMetrics(@, metric, value),
                             !.lastActivity = now])
                     /\ last' = Call("updateMetrics", sessionId, "ok", -1)
  /\ metricLog' =
       IF MapHas(sessions, sessionId)
            /\ metric \in {"totalGenerations", "madnessIndex"}
       THEN [metricLog EXCEPT ![sessionId] =
               Append(@, [metric |-> metric, value |-> value])]
       ELSE metricLog
  /\ UNCHANGED <<snapshots, memoryStore, blob, now, nextId, nextSnapId, snapLog,
                 captured, autoSave, timers>>

\* ------------------------------------------- JSON.stringify(x).length

\* The number of characters of the strings the model uses.
StrLen(str) ==
  CASE str = "" -> 0
    [] str \in {"p", "q", "c", "a", "b", "r"} -> 1
    [] str \in {"d1", "d2", "i1", "i2", "u1"} -> 2
    [] str = "synthesis" -> 9
    [] str = "anonymous" -> 9

\* A string is written between two quotes.
JsonStrLen(str) == StrLen(str) + 2

\* A small non-negative number is written with its decimal digits.
JsonNumLen(n) == IF n < 10 THEN 1 ELSE IF n < 100 THEN 2 ELSE 3

\* An array, given the serialized lengths of its elements: two brackets, the
\* elements, a comma between two elements.
JsonArrayLen(lengths) ==
  LET Sum[i \in 0..Len(lengths)] ==
        IF i = 0 THEN 0 ELSE Sum[i - 1] + lengths[i]
  IN 2 + Sum[Len(lengths)] + (IF Len(lengths) > 0 THEN Len(lengths) - 1 ELSE 0)

JsonStringsLen(array) ==
  JsonArrayLen([i \in 1..Len(array) |-> JsonStrLen(array[i])])

\* {"timestamp":T,"prompt":"..","domains":[..]}; Date.now() has 13 digits.
JsonLensLen(lens) ==
  13 + 13 + 10 + JsonStrLen(lens.prompt) + 11
     + JsonStringsLen(lens.domains) + 1

JsonLensesLen(array) ==
  JsonArrayLen([i \in 1..Len(array) |-> JsonLensLen(array[i])])

\* {"stage":n,"content":"..","madnessLevel":n,"timestamp":T}
JsonStageLen(stage) ==
  9 + JsonNumLen(stage.stage) + 11 + JsonStrLen(stage.content)
    + 16 + JsonNumLen(stage.madnessLevel) + 13 + 13 + 1

JsonStagesLen(array) ==
  JsonArrayLen([i \in 1..Len(array) |-> JsonStageLen(array[i])])

\* {"originalIdea":"..","stages":[..],"currentStage":n}
JsonChainLen(chain) ==
  16 + JsonStrLen(chain.originalIdea) + 10
     + JsonStagesLen(chain.stages)
     + 16 + JsonNumLen(chain.currentStage) + 1

\* {"ideaA":"..","ideaB":"..","method":"..","result":"..","timestamp":T}
JsonHybridLen(hybrid) ==
  9 + JsonStrLen(hybrid.ideaA) + 9 + JsonStrLen(hybrid.ideaB)
    + 10 + JsonStrLen(hybrid.method) + 10 + JsonStrLen(hybrid.result)
    + 13 + 13 + 1

JsonChainsLen(array) ==
  JsonArrayLen([i \in 1..Len(array) |-> JsonChainLen(array[i])])

JsonHybridsLen(array) ==
  JsonArrayLen([i \in 1..Len(array) |-> JsonHybridLen(array[i])])

\* {"currentProblem":"..","generatedLenses":[..],"evolutionChains":[..],
\*  "hybridAttempts":[..]}
JsonContextLen(context) ==
  18 + JsonStrLen(context.currentProblem)
     + 19 + JsonLensesLen(context.generatedLenses)
     + 19 + JsonChainsLen(context.evolutionChains)
     + 18 + JsonHybridsLen(context.hybridAttempts) + 1

\* ---------------------------------------------------------- trimContext

\* array.slice(-maxLength) for maxLength > 0; slice(-0) is slice(0), the
\* whole array.
Slice(array, maxLength) ==
  IF maxLength = 0 \/ maxLength >= Len(array) THEN array
  ELSE SubSeq(array, Len(array) - maxLength + 1, Len(array))

\* A trimArray that keeps the oldest items.
trimArray_head(array, maxLength) ==
  IF Len(array) <= maxLength THEN array ELSE SubSeq(array, 1, maxLength)

trimArray(array, maxLength) ==
  IF Len(array) <= maxLength THEN array ELSE Slice(array, maxLength)

\* Math.floor(length * (maxSize / totalSize))
TrimmedLength(length, maxSize, totalSize) == (length * maxSize) \div totalSize

trimContext(context, maxSize) ==
  IF JsonContextLen(context) <= maxSize THEN context
  ELSE LET totalSize == JsonLensesLen(context.generatedLenses)
                          + JsonChainsLen(context.evolutionChains)
                          + JsonHybridsLen(context.hybridAttempts)
       IN [ currentProblem |-> context.currentProblem,
            generatedLenses |->
              trimArray(context.generatedLenses,
                TrimmedLength(Len(context.generatedLenses), maxSize, totalSize)),
            evolutionChains |->
              trimArray(context.evolutionChains,
                TrimmedLength(Len(context.evolutionChains), maxSize, totalSize)),
            hybridAttempts |->
              trimArray(context.hybridAttempts,
                TrimmedLength(Len(context.hybridAttempts), maxSize, totalSize)) ]

\* -------------------------------------------------------- updateSession

\* source.field || []
OrEmpty(source, field) == IF field \in DOMAIN source THEN source[field] ELSE << >>

\* A merge in which the arrays of the partial replace those of the session.
deepMergeSession_overwrite(target, source) ==
  LET context ==
        IF "context" \in DOMAIN source
        THEN [ Spread(target.context, source.context) EXCEPT
                 !.generatedLenses = OrEmpty(source.context, "generatedLenses"),
                 !.evolutionChains = OrEmpty(source.context, "evolutionChains"),
                 !.hybridAttempts = OrEmpty(source.context, "hybridAttempts") ]
        ELSE target.context
  IN [target EXCEPT !.context = context]

\* deepMergeSession: only context, metrics and preferences of the partial
\* are read; every other key of it is ignored.
deepMergeSession(target, source) ==
  LET context ==
        IF "context" \in DOMAIN source
        THEN [ Spread(target.context, source.context) EXCEPT
                 !.generatedLenses =
                    target.context.generatedLenses
                      \o OrEmpty(source.context, "generatedLenses"),
                 !.evolutionChains =
                    target.context.evolutionChains
                      \o OrEmpty(source.context, "evolutionChains"),
                 !.hybridAttempts =
                    target.context.hybridAttempts
                      \o OrEmpty(source.context, "hybridAttempts") ]
        ELSE target.context
      metrics ==
        IF "metrics" \in DOMAIN source
        THEN Spread(target.metrics, source.metrics) ELSE target.metrics
      preferences ==
        IF "preferences" \in DOMAIN source
        THEN Spread(target.preferences, source.preferences)
        ELSE target.preferences
  IN [target EXCEPT !.context = context, !.metrics = metrics,
                    !.preferences = preferences]

UpdateSession(sessionId, updates) ==
  /\ IF ~MapHas(sessions, sessionId)
     THEN /\ last' = Call("updateSession", sessionId, "NotFound", -1)
          /\ UNCHANGED sessions
     ELSE LET merged == deepMergeSession(MapGet(sessions, sessionId), updates)
              updated == [merged EXCEPT !.lastActivity = now]
          IN /\ ContextEntries(merged.context) <= MaxEntries
             /\ sessions' = MapSet(sessions, sessionId,
                  IF JsonContextLen(updated.context) > MaxContextSize
                  THEN [updated EXCEPT
                          !.context = trimContext(@, MaxContextSize)]
                  ELSE updated)
             /\ last' = Call("updateSession", sessionId, "ok", -1)
  /\ UNCHANGED <<snapshots, memoryStore, blob, now, nextId, nextSnapId, snapLog, captured, metricLog, autoSave, timers>>

\* ---------------------------------------------- cleanupInactiveSessions

\* A sweep that also deletes at now - session.lastActivity = maxInactiveMs.
Inactive_orEqual(m, t, maxInactiveMs) ==
  { m[i].k : i \in { j \in 1..Len(m) : t - m[j].v.lastActivity >= maxInactiveMs } }

\* The keys the loop deletes: now - session.lastActivity > maxInactiveMs.
Inactive(m, t, maxInactiveMs) ==
  { m[i].k : i \in { j \in 1..Len(m) : t - m[j].v.lastActivity > maxInactiveMs } }

CleanupInactiveSessions(maxInactiveMs) ==
  /\ LET gone == Inactive(sessions, now, maxInactiveMs)
     IN /\ sessions' = SelectSeq(sessions, LAMBDA e : e.k \notin gone)
        /\ snapshots' = SelectSeq(snapshots, LAMBDA e : e.k \notin gone)
        /\ last' = Call("cleanupInactiveSessions", maxInactiveMs, "ok",
                        Cardinality(gone))
  /\ UNCHANGED <<memoryStore, blob, now, nextId, nextSnapId, snapLog, captured, metricLog, autoSave, timers>>

\* -------------------------------------------------- compressOldSnapshots

CompressOldSnapshots(sessionId, keepLast) ==
  /\ IF \/ ~MapHas(snapshots, sessionId)
        \/ Len(ListSnapshots(snapshots, sessionId)) <= keepLast
     THEN UNCHANGED <<snapshots, memoryStore>>
     ELSE /\ snapshots' = MapSet(snapshots, sessionId,
                            Slice(MapGet(snapshots, sessionId), keepLast))
          /\ memoryStore' =
               [memoryStore EXCEPT !.archives = @ \cup {<<sessionId, now>>}]
  /\ last' = Call("compressOldSnapshots", sessionId, "ok", -1)
  /\ UNCHANGED <<sessions, blob, now, nextId, nextSnapId, snapLog, captured, metricLog, autoSave, timers>>

\* ------------------------------------------ exportSession, importSession

\* Array.from(x): the members of a Set, the pairs of a Map, nothing of a
\* plain object.
ArrayFromSet(c) ==
  [kind |-> "Array", members |-> IF c.kind = "Object" THEN {} ELSE c.members]

ArrayFromMap(c) ==
  [kind |-> "Array", counts |-> IF c.kind = "Object" THEN NoCounts ELSE c.counts]

\* The document exportSession serializes; its report and exportTimestamp
\* are never read back and are left out.
ExportData(session, list) ==
  [ session |-> [session EXCEPT
                   !.metrics.uniqueDomainsUsed = ArrayFromSet(@),
                   !.metrics.toolUsage = ArrayFromMap(@)],
    snapshots |-> list,
    version |-> "1.0.0" ]

ExportSession(sessionId) ==
  /\ IF ~MapHas(sessions, sessionId)
     THEN /\ last' = Call("exportSession", sessionId, "NotFound", -1)
          /\ UNCHANGED blob
     ELSE /\ blob' = ExportData(MapGet(sessions, sessionId),
                                ListSnapshots(snapshots, sessionId))
          /\ last' = Call("exportSession", sessionId, "ok", -1)
  /\ UNCHANGED <<sessions, snapshots, memoryStore, now, nextId, nextSnapId,
                 snapLog, captured, metricLog, autoSave, timers>>

\* An import that leaves the two arrays of the document as they are.
Imported_keepsArrays(data, id) == [data.session EXCEPT !.id = id]

\* The session importSession stores: a new id, a Set and a Map rebuilt
\* from the arrays of the document.
Imported(data, id) ==
  [data.session EXCEPT
     !.id = id,
     !.metrics.uniqueDomainsUsed = [kind |-> "Set", members |-> @.members],
     !.metrics.toolUsage = [kind |-> "Map", counts |-> @.counts]]

ImportSession ==
  /\ blob # None
  /\ nextId <= MaxIds
  /\ sessions' = MapSet(sessions, nextId, Imported(blob, nextId))
  /\ snapshots' = MapSet(snapshots, nextId, blob.snapshots)
  /\ nextId' = nextId + 1
  /\ last' = Call("importSession", nextId, "ok", nextId)
  /\ UNCHANGED <<memoryStore, blob, now, nextSnapId, snapLog, captured, metricLog, autoSave, timers>>

\* ------------------------------------------------- saveState, loadState

\* JSON.stringify of the entries of the session registry.
JsonSessions(m) == [i \in 1..Len(m) |-> [k |-> m[i].k, v |-> JsonClone(m[i].v)]]

\* The memory backend: the 'state' key holds both registries, one
\* 'session_<id>' key is written per live session.
SaveState ==
  /\ memoryStore' =
       [memoryStore EXCEPT
          !.state = [sessions |-> JsonSessions(sessions),
                     snapshots |-> snapshots],
          !.sessionKeys = @ \cup MapKeys(sessions)]
  /\ last' = Call("saveState", 0, "ok", -1)
  /\ UNCHANGED <<sessions, snapshots, blob, now, nextId, nextSnapId, snapLog, captured, metricLog, autoSave, timers>>

\* new Set(Array.from(x)) and new Map(Array.from(x)) of a loaded session.
RestoreCollections(session) ==
  [session EXCEPT
     !.metrics.uniqueDomainsUsed =
        [kind |-> "Set", members |-> ArrayFromSet(@).members],
     !.metrics.toolUsage =
        [kind |-> "Map", counts |-> ArrayFromMap(@).counts]]

Loaded(state) ==
  [i \in 1..Len(state.sessions) |->
     [k |-> state.sessions[i].k, v |-> RestoreCollections(state.sessions[i].v)]]

LoadState ==
  /\ IF memoryStore.state = None
     THEN UNCHANGED <<sessions, snapshots>>
     ELSE /\ sessions' = Loaded(memoryStore.state)
          /\ snapshots' = memoryStore.state.snapshots
  /\ last' = Call("loadState", 0, "ok", -1)
  /\ UNCHANGED <<memoryStore, blob, now, nextId, nextSnapId, snapLog, captured, metricLog, autoSave, timers>>

\* ------------------------------ saveState, loadState: a failing backend

\* saveState while PersistenceHandler.save throws (the redis backend, a
\* failed write): saveState has no try/catch, so the rejection reaches the
\* caller; nothing was written.
SaveStateFailing ==
  /\ last' = Call("saveState", 0, "Error", -1)
  /\ UNCHANGED <<sessions, snapshots, memoryStore, blob, now, nextId,
                 nextSnapId, snapLog, captured, metricLog, autoSave, timers>>

\* loadState while PersistenceHandler.load throws: the catch block logs the
\* error and loadState returns.
LoadStateFailing ==
  /\ last' = Call("loadState", 0, "ok", -1)
  /\ UNCHANGED <<sessions, snapshots, memoryStore, blob, now, nextId,
                 nextSnapId, snapLog, captured, metricLog, autoSave, timers>>

\* clearInterval on the two handles the fields hold.
ClearedTimers(t) ==
  [t EXCEPT !.set = { i \in @ : i.handle \notin {t.autoSaveInterval,
                                                  t.cleanupInterval} }]

\* shutdown while PersistenceHandler.save throws: the timers are cleared and
\* the rejection of the awaited saveState reaches the caller.
ShutdownFailing ==
  /\ last' = Call("shutdown", 0, "Error", -1)
  /\ timers' = ClearedTimers(timers)
  /\ UNCHANGED <<sessions, snapshots, memoryStore, blob, now, nextId,
                 nextSnapId, snapLog, captured, metricLog, autoSave>>

\* --------------------------------------- getSessionReport, getSessionHealth

\* Both read the session and change nothing; an unknown id throws.
GetSessionReport(sessionId) ==
  /\ last' = Call("getSessionReport", sessionId,
                  IF MapHas(sessions, sessionId) THEN "ok" ELSE "NotFound", -1)
  /\ UNCHANGED <<sessions, snapshots, memoryStore, blob, now, nextId,
                 nextSnapId, snapLog, captured, metricLog, autoSave, timers>>

GetSessionHealth(sessionId) ==
  /\ last' = Call("getSessionHealth", sessionId,
                  IF MapHas(sessions, sessionId) THEN "ok" ELSE "NotFound", -1)
  /\ UNCHANGED <<sessions, snapshots, memoryStore, blob, now, nextId,
                 nextSnapId, snapLog, captured, metricLog, autoSave, timers>>

\* ---------------------------------------------- validateSessionIntegrity

\* A check that looks at the metrics only.
Valid_metricsOnly(session, t) ==
  /\ session.userId # ""
  /\ ~ \/ session.metrics.totalGenerations < 0
       \/ session.metrics.averageMadnessIndex.num < 0
       \/ session.metrics.averageMadnessIndex.num
            > 10 * session.metrics.averageMadnessIndex.den

\* The body of the try block: required fields (ids are never falsy, the
\* context is always an object, a userId may be ""), the metric ranges, the
\* order of the timestamps.
Valid(session, t) ==
  /\ session.userId # ""
  /\ ~ \/ session.metrics.totalGenerations < 0
       \/ session.metrics.averageMadnessIndex.num < 0
       \/ session.metrics.averageMadnessIndex.num
            > 10 * session.metrics.averageMadnessIndex.den
  /\ ~ \/ session.startTime > session.lastActivity
       \/ session.startTime > t

ValidateSessionIntegrity(sessionId) ==
  /\ last' = Call("validateSessionIntegrity", sessionId, "ok",
                  IF MapHas(sessions, sessionId)
                       /\ Valid(MapGet(sessions, sessionId), now)
                  THEN 1 ELSE 0)
  /\ UNCHANGED <<sessions, snapshots, memoryStore, blob, now, nextId,
                 nextSnapId, snapLog, captured, metricLog, autoSave, timers>>

\* getSession hands out the live object; what a caller may write into it.
Corrupted(session, corruption, t) ==
  CASE corruption = "generations" ->
         [session EXCEPT !.metrics.totalGenerations = -5]
    [] corruption = "lowMadness" ->
         [session EXCEPT !.metrics.averageMadnessIndex = [num |-> -1, den |-> 1]]
    [] corruption = "highMadness" ->
         [session EXCEPT !.metrics.averageMadnessIndex = [num |-> 11, den |-> 1]]
    [] corruption = "staleActivity" ->
         [session EXCEPT !.lastActivity = session.startTime - 1]
    [] corruption = "future" ->
         [session EXCEPT !.startTime = t + 1, !.lastActivity = t + 1]

CorruptSession(sessionId, corruption) ==
  /\ MapHas(sessions, sessionId)
  /\ sessions' = MapSet(sessions, sessionId,
                        Corrupted(MapGet(sessions, sessionId), corruption, now))
  /\ last' = Call("getSession", sessionId, "ok", -1)
  /\ UNCHANGED <<snapshots, memoryStore, blob, now, nextId, nextSnapId,
                 snapLog, captured, metricLog, autoSave, timers>>

\* --------------------------------- createSessionMiddleware: before a tool

\* No sessionId: undefined in the context and in the arguments.
Absent == -1

\* context?.sessionId || args.sessionId
ResolvedId(contextId, argsId) ==
  IF contextId # Absent THEN contextId ELSE argsId

\* What updateSession stores for a live session.
UpdatedSession(session, updates, t) ==
  LET merged == deepMergeSession(session, updates)
      updated == [merged EXCEPT !.lastActivity = t]
  IN IF JsonContextLen(updated.context) > MaxContextSize
     THEN [updated EXCEPT !.context = trimContext(@, MaxContextSize)]
     ELSE updated

\* The hook runs without an await: createSession when no id is supplied,
\* updateSession (throws on an id that is not live), updateMetrics (throws
\* when toolUsage is no Map); what was done before a throw stays done.
BeforeToolExecution(tool, contextId, argsId) ==
  LET supplied == ResolvedId(contextId, argsId)
      creates == supplied = Absent
      ev == IF creates THEN Evicted(sessions, snapshots)
            ELSE [sessions |-> sessions, snapshots |-> snapshots]
      sessionId == IF creates THEN nextId ELSE supplied
      resolved == IF creates
                  THEN MapSet(ev.sessions, nextId,
                              NewSession(nextId, "anonymous", "", now))
                  ELSE sessions
  IN /\ creates => nextId <= MaxIds
     /\ nextId' = IF creates THEN nextId + 1 ELSE nextId
     /\ snapshots' = ev.snapshots
     /\ IF ~MapHas(resolved, sessionId)
        THEN /\ sessions' = resolved
             /\ last' = Call("beforeToolExecution", sessionId, "NotFound", -1)
        ELSE LET updated == UpdatedSession(MapGet(resolved, sessionId),
                                           [lastActivity |-> now], now)
             IN IF MetricThrows(updated.metrics, "toolUsage")
                THEN /\ sessions' = MapSet(resolved, sessionId, updated)
                     /\ last' = Call("beforeToolExecution", sessionId,
                                     "TypeError", -1)
                ELSE /\ MetricInBounds(updated.metrics, "toolUsage", tool)
                     /\ sessions' = MapSet(resolved, sessionId,
                          [updated EXCEPT
                             !.metrics = UpdatedMetrics(@, "toolUsage", tool),
                             !.lastActivity = now])
                     /\ last' = Call("beforeToolExecution", sessionId, "ok",
                                     sessionId)
     /\ UNCHANGED <<memoryStore, blob, now, nextSnapId, snapLog, captured,
                    metricLog, autoSave, timers>>

\* ---------------------------------- createSessionMiddleware: after a tool

\* The tools after which the hook takes a snapshot.
SnapshotTools == {"evolve_idea_with_structure", "create_hybrid_framework"}

\* The (contextType, data) addToContext call the switch makes for a tool and
\* its result, None when the result lacks the field the case tests. The
\* arguments name the idea "i1", the ideas "a" and "b", no targetStage, no
\* madnessLevel and no method.
HookContextCall(tool, result, t) ==
  CASE tool = "generate_creative_lens_prompt" /\ "prompt" \in DOMAIN result ->
         [type |-> "lens",
          data |-> [prompt |-> result.prompt,
                    domains |-> OrEmpty(result, "domains")]]
    [] tool = "evolve_idea_with_structure" /\ "evolution" \in DOMAIN result ->
         [type |-> "evolution",
          data |-> [originalIdea |-> "i1",
                    stage |-> [stage |-> 1, content |-> result.evolution,
                               madnessLevel |-> 5, timestamp |-> t]]]
    [] tool = "create_hybrid_framework" /\ "hybrid" \in DOMAIN result ->
         [type |-> "hybrid",
          data |-> [ideaA |-> "a", ideaB |-> "b", method |-> "synthesis",
                    result |-> result.hybrid]]
    [] OTHER -> None

\* The updateMetrics calls that follow the addToContext call, in order.
HookMetricCalls(tool, result) ==
  CASE tool = "generate_creative_lens_prompt" ->
         <<[metric |-> "totalGenerations", value |-> 1]>>
           \o [i \in 1..Len(OrEmpty(result, "domains")) |->
                 [metric |-> "domain", value |-> result.domains[i]]]
    [] tool = "evolve_idea_with_structure" ->
         <<[metric |-> "madnessIndex", value |-> 5]>>
    [] tool = "create_hybrid_framework" ->
         IF "success" \in DOMAIN result
         THEN <<[metric |-> "successfulHybrid", value |-> 1]>> ELSE << >>

\* The metrics after the first n calls, and whether one of them threw; a
\* call that throws ends the run.
RECURSIVE MetricsAfter(_, _, _)
MetricsAfter(metrics, calls, n) ==
  IF n = 0 THEN [metrics |-> metrics, threw |-> FALSE]
  ELSE LET before == MetricsAfter(metrics, calls, n - 1)
       IN IF before.threw \/ MetricThrows(before.metrics, calls[n].metric)
          THEN [metrics |-> before.metrics, threw |-> TRUE]
          ELSE [metrics |-> UpdatedMetrics(before.metrics, calls[n].metric,
                                           calls[n].value),
                threw |-> FALSE]

\* The totalGenerations and madnessIndex calls among the first n that were
\* served.
RECURSIVE ServedCalls(_, _, _)
ServedCalls(metrics, calls, n) ==
  IF n = 0 THEN << >>
  ELSE LET before == MetricsAfter(metrics, calls, n - 1)
       IN ServedCalls(metrics, calls, n - 1) \o
            (IF /\ ~before.threw
                /\ ~MetricThrows(before.metrics, calls[n].metric)
                /\ calls[n].metric \in {"totalGenerations", "madnessIndex"}
             THEN <<calls[n]>> ELSE << >>)

\* The hook runs without an await. On an id that is not live addToContext
\* and updateMetrics return silently and createSnapshot throws; on a live
\* session the calls of the switch are made in order, and what was done
\* before a throw stays done.
AfterToolExecution(tool, result, sessionId) ==
  LET call == HookContextCall(tool, result, now)
      calls == IF call = None THEN << >> ELSE HookMetricCalls(tool, result)
      live == MapHas(sessions, sessionId)
      session == MapGet(sessions, sessionId)
      added == IF call = None THEN session
               ELSE [session EXCEPT
                       !.context = AddedContext(@, call.type, call.data, now),
                       !.lastActivity = now]
      after == MetricsAfter(added.metrics, calls, Len(calls))
      final == [added EXCEPT !.metrics = after.metrics]
      snaps == tool \in SnapshotTools /\ (~live \/ ~after.threw)
  IN /\ live /\ call # None => ContextEntries(session.context) < MaxEntries
     /\ live => /\ \A i \in 1..Len(calls) :
                     MetricInBounds(session.metrics, calls[i].metric,
                                    calls[i].value)
                /\ Len(metricLog[sessionId]) < MaxLog
     /\ live /\ snaps => nextSnapId <= MaxSnapIds
     /\ sessions' = IF live THEN MapSet(sessions, sessionId, final)
                    ELSE sessions
     /\ metricLog' =
          IF live
          THEN [metricLog EXCEPT ![sessionId] =
                  @ \o ServedCalls(added.metrics, calls, Len(calls))]
          ELSE metricLog
     /\ IF live /\ snaps
        THEN /\ snapshots' = MapSet(snapshots, sessionId,
                  PushCapped(ListSnapshots(snapshots, sessionId),
                             [ id |-> nextSnapId,
                               sessionId |-> sessionId,
                               timestamp |-> now,
                               state |-> JsonClone(final) ]))
             /\ nextSnapId' = nextSnapId + 1
             /\ snapLog' = [snapLog EXCEPT ![sessionId] = Append(@, nextSnapId)]
             /\ captured' = [captured EXCEPT ![nextSnapId] = final.metrics]
        ELSE UNCHANGED <<snapshots, nextSnapId, snapLog, captured>>
     /\ last' = Call("afterToolExecution", sessionId,
                     CASE live /\ after.threw -> "TypeError"
                       [] ~live /\ snaps -> "NotFound"
                       [] OTHER -> "ok",
                     -1)
     /\ UNCHANGED <<memoryStore, blob, now, nextId, autoSave, timers>>

\* ------------------------------------------------ createAutoSaveMiddleware

\* The interval the middleware was created with.
SaveInterval == 0

\* afterToolExecution up to its await: the time is read, and when the gate
\* is open saveState is started (it serializes the registries at once) and
\* the invocation is suspended with the time it read; lastSave is untouched.
AutoSaveHook ==
  /\ IF now - autoSave.lastSave > SaveInterval
     THEN /\ Len(autoSave.suspended) < MaxSuspended
          /\ autoSave' = [autoSave EXCEPT !.suspended = Append(@, now),
                                          !.starts = Append(@, now)]
          /\ memoryStore' =
               [memoryStore EXCEPT
                  !.state = [sessions |-> JsonSessions(sessions),
                             snapshots |-> snapshots],
                  !.sessionKeys = @ \cup MapKeys(sessions)]
          /\ last' = Call("autoSaveHook", 0, "ok", 1)
     ELSE /\ UNCHANGED <<autoSave, memoryStore>>
          /\ last' = Call("autoSaveHook", 0, "ok", 0)
  /\ UNCHANGED <<sessions, snapshots, blob, now, nextId, nextSnapId, snapLog,
                 captured, metricLog, timers>>

\* The awaited saveState of the i-th suspended invocation has resolved:
\* lastSave = now, with the time the invocation read before it was suspended.
AutoSaveHookResume(i) ==
  /\ i \in 1..Len(autoSave.suspended)
  /\ autoSave' =
       [autoSave EXCEPT
          !.lastSave = autoSave.suspended[i],
          !.suspended = SubSeq(@, 1, i - 1) \o SubSeq(@, i + 1, Len(@))]
  /\ last' = Call("autoSaveHookResume", 0, "ok", autoSave.suspended[i])
  /\ UNCHANGED <<sessions, snapshots, memoryStore, blob, now, nextId,
                 nextSnapId, snapLog, captured, metricLog, timers>>

\* ------------------------------------------- initialize, shutdown, timers

\* The handles setInterval can return within the bound on initialize calls.
Handles == 1..(2 * MaxInits)

\* options.cleanup.inactiveThreshold
InactiveThreshold == 0

\* initialize: loadState, then two setInterval calls whose handles overwrite
\* the fields autoSaveInterval and cleanupInterval.
Initialize ==
  /\ timers.next + 1 \in Handles
  /\ IF memoryStore.state = None
     THEN UNCHANGED <<sessions, snapshots>>
     ELSE /\ sessions' = Loaded(memoryStore.state)
          /\ snapshots' = memoryStore.state.snapshots
  /\ timers' =
       [timers EXCEPT
          !.autoSaveInterval = timers.next,
          !.cleanupInterval = timers.next + 1,
          !.set = @ \cup { [handle |-> timers.next, kind |-> "autoSave"],
                           [handle |-> timers.next + 1, kind |-> "cleanup"] },
          !.next = @ + 2]
  /\ last' = Call("initialize", 0, "ok", -1)
  /\ UNCHANGED <<memoryStore, blob, now, nextId, nextSnapId, snapLog,
                 captured, metricLog, autoSave>>

\* shutdown with a backend that saves: the two handles in the fields are
\* cleared, saveState runs.
Shutdown ==
  /\ timers' = [ClearedTimers(timers) EXCEPT !.down = TRUE]
  /\ memoryStore' =
       [memoryStore EXCEPT
          !.state = [sessions |-> JsonSessions(sessions),
                     snapshots |-> snapshots],
          !.sessionKeys = @ \cup MapKeys(sessions)]
  /\ last' = Call("shutdown", 0, "ok", -1)
  /\ UNCHANGED <<sessions, snapshots, blob, now, nextId, nextSnapId, snapLog,
                 captured, metricLog, autoSave>>

\* An interval set for auto-save fires: saveState().catch(console.error).
AutoSaveTick(h) ==
  /\ [handle |-> h, kind |-> "autoSave"] \in timers.set
  /\ memoryStore' =
       [memoryStore EXCEPT
          !.state = [sessions |-> JsonSessions(sessions),
                     snapshots |-> snapshots],
          !.sessionKeys = @ \cup MapKeys(sessions)]
  /\ last' = Call("autoSaveTick", h, "ok", -1)
  /\ UNCHANGED <<sessions, snapshots, blob, now, nextId, nextSnapId, snapLog,
                 captured, metricLog, autoSave, timers>>

\* An interval set for cleanup fires:
\* cleanupInactiveSessions(options.cleanup.inactiveThreshold).
CleanupTick(h) ==
  /\ [handle |-> h, kind |-> "cleanup"] \in timers.set
  /\ LET gone == Inactive(sessions, now, InactiveThreshold)
     IN /\ sessions' = SelectSeq(sessions, LAMBDA e : e.k \notin gone)
        /\ snapshots' = SelectSeq(snapshots, LAMBDA e : e.k \notin gone)
        /\ last' = Call("cleanupTick", h, "ok", Cardinality(gone))
  /\ UNCHANGED <<memoryStore, blob, now, nextId, nextSnapId, snapLog,
                 captured, metricLog, autoSave, timers>>

\* ---------------------------------------------------------------- clock

Tick ==
  /\ now < MaxTime
  /\ now' = now + 1
  /\ last' = Call("tick", 0, "ok", -1)
  /\ UNCHANGED <<sessions, snapshots, memoryStore, blob, nextId, nextSnapId,
                 snapLog, captured, metricLog, autoSave, timers>>

\* ----------------------------------------------------------------- init

Init ==
  /\ sessions = << >>
  /\ snapshots = << >>
  /\ memoryStore = [state |-> None, sessionKeys |-> {}, archives |-> {}]
  /\ blob = None
  /\ now = 0
  /\ nextId = 1
  /\ nextSnapId = 1
  /\ last = Call("init", 0, "ok", -1)
  /\ snapLog = [i \in SessionIds |-> << >>]
  /\ captured = [i \in SnapIds |-> None]
  /\ metricLog = [i \in SessionIds |-> << >>]
  /\ autoSave = [lastSave |-> 0, suspended |-> << >>, starts |-> << >>]
  /\ timers = [autoSaveInterval |-> 0, cleanupInterval |-> 0, set |-> {},
               next |-> 1, down |-> FALSE]

\* --------------------------------------------------------------- inputs

LensData ==
  { [prompt |-> "p", domains |-> << >>],
    [prompt |-> "p", domains |-> <<"d1">>] }

EvolutionData ==
  { [originalIdea |-> i,
     stage |-> [stage |-> 1, content |-> "c", madnessLevel |-> 5,
                timestamp |-> 0]] : i \in {"i1", "i2"} }

HybridData ==
  { [ideaA |-> "a", ideaB |-> "b", method |-> "synthesis", result |-> "r"] }

\* Partial<Session> values: nothing, a stale lastActivity and id, a
\* preference, a new problem, one more lens.
Partials ==
  { EmptyObj,
    [lastActivity |-> 0, id |-> 0],
    [preferences |-> [targetMadnessLevel |-> 7]],
    [context |-> [currentProblem |-> "q"]],
    [context |-> [generatedLenses |->
        <<[timestamp |-> 0, prompt |-> "p", domains |-> << >>]>>]] }

\* The ids a caller passes: every id ever handed out, and one never used.
AnySessionId == 0..MaxIds
AnySnapId == 0..MaxSnapIds

\* The maxSize values a caller of trimContext passes.
MaxSizes == {0, 60, 100, 150, 250}

\* The values a caller passes with totalGenerations and with madnessIndex.
BumpValues == {1, 3}
MadnessValues == {4, 6, 10}
ExtremeValues == {0, 10}

\* The writes of a caller that corrupts a session it got from getSession.
Corruptions ==
  {"generations", "lowMadness", "highMadness", "staleActivity", "future"}

\* Evolution data: two ideas, two different stages.
EvolutionSteps ==
  { [originalIdea |-> i,
     stage |-> [stage |-> n, content |-> "c", madnessLevel |-> 5,
                timestamp |-> 0]] : i \in {"i1", "i2"}, n \in 1..2 }

\* Partial<Session> values for a merge: one that supplies identity fields and
\* a stale lastActivity, a preference, a metric, one more lens.
MergePartials ==
  { [id |-> 0, userId |-> "anonymous", startTime |-> 1, lastActivity |-> 0],
    [preferences |-> [targetMadnessLevel |-> 7]],
    [metrics |-> [successfulHybrids |-> 1]],
    [context |-> [generatedLenses |->
        <<[timestamp |-> 0, prompt |-> "p", domains |-> << >>]>>]] }

\* The sessionId a tool call carries, in its context or in its arguments.
Supplied == {Absent} \cup AnySessionId

\* The results of the three tools: complete ones, and one without the field
\* the hook tests.
ToolResults(tool) ==
  CASE tool = "generate_creative_lens_prompt" ->
         { [prompt |-> "p", domains |-> <<"d1">>], EmptyObj }
    [] tool = "evolve_idea_with_structure" ->
         { [evolution |-> "c"], EmptyObj }
    [] tool = "create_hybrid_framework" ->
         { [hybrid |-> "r", success |-> TRUE], [hybrid |-> "r"] }

\* Thresholds and keepLast values a caller passes.
Thresholds == 0..1
KeepLast == 0..1

\* ------------------------------------------- createSession calls only

NextCreate ==
  \/ \E u \in UserIds, p \in Problems : CreateSession(u, p)
  \/ Tick

SpecCreate == Init /\ [][NextCreate]_vars

\* ------------------------------------ sessions, snapshots and rollback

NextSnap ==
  \/ Len(sessions) = 0 /\ CreateSession("u1", "")
  \/ \E id \in SessionIds : UpdateMetrics(id, "domain", "d1")
  \/ \E id \in SessionIds :
       UpdateMetrics(id, "toolUsage", "evolve_idea_with_structure")
  \/ \E id \in SessionIds : CreateSnapshot(id)
  \/ \E sid \in SnapIds : RollbackToSnapshot(sid)
  \/ Tick

SpecSnap == Init /\ [][NextSnap]_vars

\* ----------------------------------------- the context and its size bound

NextCtx ==
  \/ \E p \in Problems : Len(sessions) = 0 /\ CreateSession("u1", p)
  \/ \E id \in SessionIds, d \in LensData : AddToContext(id, "lens", d)
  \/ \E id \in SessionIds, d \in EvolutionData : AddToContext(id, "evolution", d)
  \/ \E id \in SessionIds, d \in HybridData : AddToContext(id, "hybrid", d)
  \/ \E id \in SessionIds, u \in Partials : UpdateSession(id, u)
  \/ Tick

SpecCtx == Init /\ [][NextCtx]_vars

\* ------------------------------------- the life cycle of a session

NextLife ==
  \/ CreateSession("u1", "")
  \/ \E id \in SessionIds : DeleteSession(id)
  \/ \E id \in SessionIds : UpdateSession(id, EmptyObj)
  \/ \E id \in SessionIds : CreateSnapshot(id)
  \/ \E sid \in SnapIds : RollbackToSnapshot(sid)
  \/ \E t \in Thresholds : CleanupInactiveSessions(t)
  \/ Tick

Spec == Init /\ [][NextLife]_vars

\* ------------------------------------------- the sweep of idle sessions

\* Sessions created at different instants, touched, snapshotted and rolled
\* back, and swept; no session is evicted or deleted by hand.
NextSweep ==
  \/ nextId <= MaxSessions /\ CreateSession("u1", "")
  \/ \E id \in SessionIds : UpdateSession(id, EmptyObj)
  \/ \E id \in SessionIds :
       nextSnapId <= MaxFewSnapshots /\ CreateSnapshot(id)
  \/ \E sid \in SnapIds : RollbackToSnapshot(sid)
  \/ \E t \in Thresholds : CleanupInactiveSessions(t)
  \/ Tick

SpecSweep == Init /\ [][NextSweep]_vars

\* ---------------------------- the strict operations, known and unknown ids

NextStrict ==
  \/ nextId <= MaxSessions /\ CreateSession("u1", "")
  \/ \E id \in AnySessionId : DeleteSession(id)
  \/ \E id \in AnySessionId :
       UpdateSession(id, [lastActivity |-> 0, id |-> 0])
  \/ \E id \in AnySessionId :
       nextSnapId <= MaxFewSnapshots /\ CreateSnapshot(id)
  \/ \E sid \in AnySnapId : RollbackToSnapshot(sid)
  \/ \E id \in AnySessionId : ExportSession(id)
  \/ \E id \in AnySessionId : GetSessionReport(id)
  \/ \E id \in AnySessionId : GetSessionHealth(id)

SpecStrict == Init /\ [][NextStrict]_vars

\* ------------------------------------------------- export and import

NextPort ==
  \/ nextId = 1 /\ CreateSession("u1", "")
  \/ \E id \in SessionIds :
       UpdateSession(id, [context |-> [currentProblem |-> "q"]])
  \/ \E id \in SessionIds : DeleteSession(id)
  \/ \E id \in SessionIds : CreateSnapshot(id)
  \/ \E sid \in SnapIds : RollbackToSnapshot(sid)
  \/ \E id \in SessionIds : ExportSession(id)
  \/ nextId < 2 + MaxImports /\ ImportSession

SpecPort == Init /\ [][NextPort]_vars

\* ------------------------------------------------- saveState, loadState

NextPersist ==
  \/ CreateSession("u1", "")
  \/ \E id \in SessionIds : DeleteSession(id)
  \/ \E id \in SessionIds : UpdateMetrics(id, "domain", "d1")
  \/ \E id \in SessionIds :
       nextSnapId <= MaxFewSnapshots /\ CreateSnapshot(id)
  \/ SaveState
  \/ LoadState

SpecPersist == Init /\ [][NextPersist]_vars

\* ---------------------------------- contexts for trimContext to cut

NextTrim ==
  \/ Len(sessions) = 0 /\ CreateSession("u1", "")
  \/ \E id \in SessionIds, d \in LensData : AddToContext(id, "lens", d)
  \/ \E id \in SessionIds, d \in EvolutionData : AddToContext(id, "evolution", d)
  \/ \E id \in SessionIds, d \in HybridData : AddToContext(id, "hybrid", d)
  \/ \E id \in SessionIds :
       UpdateSession(id, [context |-> [generatedLenses |->
         <<[timestamp |-> 0, prompt |-> "p", domains |-> << >>]>>]])
  \/ Tick

SpecTrim == Init /\ [][NextTrim]_vars

\* ------------------------------ generations and their madness indices

NextMean ==
  \/ Len(sessions) = 0 /\ CreateSession("u1", "")
  \/ \E id \in SessionIds, v \in BumpValues :
       Len(metricLog[id]) < MaxLog /\ UpdateMetrics(id, "totalGenerations", v)
  \/ \E id \in SessionIds, v \in MadnessValues :
       Len(metricLog[id]) < MaxLog /\ UpdateMetrics(id, "madnessIndex", v)

SpecMean == Init /\ [][NextMean]_vars

\* ----------------------- the calls that keep a session's times and metrics

NextBounds ==
  \/ nextId = 1 /\ CreateSession("u1", "")
  \/ \E i \in 1..Len(sessions) :
       /\ Len(sessions[i].v.context.generatedLenses) = 0
       /\ AddToContext(sessions[i].k, "lens", [prompt |-> "p", domains |-> << >>])
  \/ \E id \in SessionIds :
       Len(metricLog[id]) < MaxFewCalls /\ UpdateMetrics(id, "totalGenerations", 1)
  \/ \E id \in SessionIds, v \in ExtremeValues :
       Len(metricLog[id]) < MaxFewCalls /\ UpdateMetrics(id, "madnessIndex", v)
  \/ \E id \in SessionIds : nextSnapId = 1 /\ CreateSnapshot(id)
  \/ \E sid \in SnapIds : RollbackToSnapshot(sid)
  \/ Tick

SpecBounds == Init /\ [][NextBounds]_vars

\* ------------------------------------------ compressing old snapshots

NextCompress ==
  \/ nextId <= MaxSessions /\ CreateSession("u1", "")
  \/ \E id \in SessionIds : CreateSnapshot(id)
  \/ \E id \in AnySessionId, keepLast \in KeepLast :
       CompressOldSnapshots(id, keepLast)
  \/ Tick

SpecCompress == Init /\ [][NextCompress]_vars

\* ---------------------------------- persistence with a failing backend

NextFail ==
  \/ nextId <= MaxFewSessions /\ CreateSession("u1", "")
  \/ \E id \in SessionIds : UpdateMetrics(id, "domain", "d1")
  \/ \E id \in SessionIds :
       nextSnapId <= MaxFewSnapshots /\ CreateSnapshot(id)
  \/ \E id \in SessionIds : DeleteSession(id)
  \/ SaveState
  \/ LoadState
  \/ SaveStateFailing
  \/ LoadStateFailing
  \/ ShutdownFailing

SpecFail == Init /\ [][NextFail]_vars

\* ------------------------------------ export followed by import

\* One created session with a user, a problem, domains and tool counts; it
\* and its imported copies are exported and imported.
NextRound ==
  \/ \E u \in UserIds, p \in Problems : nextId = 1 /\ CreateSession(u, p)
  \/ \E id \in SessionIds : UpdateMetrics(id, "domain", "d1")
  \/ \E id \in SessionIds :
       UpdateMetrics(id, "toolUsage", "evolve_idea_with_structure")
  \/ \E id \in SessionIds : ExportSession(id)
  \/ nextId < 2 + MaxImports /\ ImportSession

SpecRound == Init /\ [][NextRound]_vars

\* --------------------- addToContext and updateMetrics, known and unknown ids

NextSilent ==
  \/ nextId <= MaxFewSessions /\ CreateSession("u1", "")
  \/ \E id \in AnySessionId : DeleteSession(id)
  \/ \E id \in AnySessionId :
       nextSnapId <= MaxFewSnapshots /\ CreateSnapshot(id)
  \/ \E id \in AnySessionId :
       AddToContext(id, "lens", [prompt |-> "p", domains |-> << >>])
  \/ \E id \in AnySessionId : UpdateMetrics(id, "domain", "d1")

SpecSilent == Init /\ [][NextSilent]_vars

\* ------------------------------- sessions, sound and corrupted, validated

NextIntegrity ==
  \/ \E u \in UserIds : nextId = 1 /\ CreateSession(u, "")
  \/ \E id \in SessionIds :
       Len(metricLog[id]) < MaxFewCalls /\ UpdateMetrics(id, "totalGenerations", 1)
  \/ \E id \in SessionIds : nextSnapId = 1 /\ CreateSnapshot(id)
  \/ \E sid \in SnapIds : RollbackToSnapshot(sid)
  \/ \E id \in SessionIds, c \in Corruptions :
       /\ MapHas(sessions, id)
       /\ Valid(MapGet(sessions, id), now)
       /\ CorruptSession(id, c)
  \/ \E id \in AnySessionId : ValidateSessionIntegrity(id)
  \/ Tick

SpecIntegrity == Init /\ [][NextIntegrity]_vars

\* ------------------------------------------- evolution calls on a session

NextEvolve ==
  \/ \E p \in Problems : nextId = 1 /\ CreateSession("u1", p)
  \/ \E id \in AnySessionId, d \in EvolutionSteps :
       AddToContext(id, "evolution", d)
  \/ Tick

SpecEvolve == Init /\ [][NextEvolve]_vars

\* ---------------------------------------- updateSession and what it merges

\* Two sessions; the first one is snapshotted and updated, the second one
\* stands by.
NextMerge ==
  \/ nextId < 3 /\ CreateSession("u1", "")
  \/ \E u \in MergePartials : UpdateSession(1, u)
  \/ nextSnapId = 1 /\ CreateSnapshot(1)
  \/ Tick

SpecMerge == Init /\ [][NextMerge]_vars

\* ------------------------------------------- tool calls entering the hook

NextHook ==
  \/ \E tool \in Tools :
       nextId < 3 /\ BeforeToolExecution(tool, Absent, Absent)
  \/ \E tool \in Tools, contextId, argsId \in Supplied :
       /\ ResolvedId(contextId, argsId) # Absent
       /\ BeforeToolExecution(tool, contextId, argsId)
  \/ \E id \in SessionIds : nextSnapId = 1 /\ CreateSnapshot(id)
  \/ \E sid \in SnapIds : RollbackToSnapshot(sid)
  \/ Tick

SpecHook == Init /\ [][NextHook]_vars

\* ----------------------- tool calls in flight while sessions are removed

NextRace ==
  \/ \E tool \in Tools :
       nextId <= MaxSessions + 1 /\ BeforeToolExecution(tool, Absent, Absent)
  \/ \E tool \in Tools, id \in SessionIds : \E result \in ToolResults(tool) :
       /\ id < nextId
       /\ nextSnapId <= MaxFewSnapshots
       /\ Len(metricLog[id]) < MaxFewCalls
       /\ AfterToolExecution(tool, result, id)
  \/ \E t \in Thresholds : CleanupInactiveSessions(t)
  \/ Tick

SpecRace == Init /\ [][NextRace]_vars

\* -------------------------------- tool calls that end in the auto-save hook

NextAutoSave ==
  \/ \E p \in Problems : nextId <= MaxSessions /\ CreateSession("u1", p)
  \/ AutoSaveHook
  \/ \E i \in 1..MaxSuspended : AutoSaveHookResume(i)
  \/ Tick

SpecAutoSave == Init /\ [][NextAutoSave]_vars

\* ------------------------------------ a manager, its timers, its shutdown

NextTimers ==
  \/ \E p \in Problems : nextId <= MaxFewSessions /\ CreateSession("u1", p)
  \/ ~timers.down /\ Initialize
  \/ ~timers.down /\ Shutdown
  \/ \E h \in Handles : AutoSaveTick(h)
  \/ \E h \in Handles : CleanupTick(h)
  \/ Tick

SpecTimers == Init /\ [][NextTimers]_vars

\* ------------------------- the calls that store sessions and snapshots

NextKeys ==
  \/ nextId = 1 /\ CreateSession("u1", "")
  \/ \E id \in SessionIds : UpdateSession(id, [lastActivity |-> 0, id |-> 0])
  \/ \E id \in SessionIds : nextSnapId <= MaxFewSnapshots /\ CreateSnapshot(id)
  \/ \E sid \in SnapIds : RollbackToSnapshot(sid)
  \/ \E id \in SessionIds : ExportSession(id)
  \/ nextId < 2 + MaxImports /\ ImportSession
  \/ Tick

SpecKeys == Init /\ [][NextKeys]_vars

\* ------------------- every call that adds or removes a registry entry

NextOrphan ==
  \/ CreateSession("u1", "")
  \/ \E id \in SessionIds : DeleteSession(id)
  \/ \E t \in Thresholds : CleanupInactiveSessions(t)
  \/ \E id \in SessionIds : nextSnapId = 1 /\ CreateSnapshot(id)
  \/ \E sid \in SnapIds : RollbackToSnapshot(sid)
  \/ \E id \in SessionIds :
       memoryStore.archives = {} /\ CompressOldSnapshots(id, 0)
  \/ \E id \in SessionIds : blob = None /\ ExportSession(id)
  \/ nextId < 2 + MaxImports /\ ImportSession
  \/ Tick

SpecOrphan == Init /\ [][NextOrphan]_vars

\* ------------------------- the calls that grow and shrink the registries

NextCap ==
  \/ CreateSession("u1", "")
  \/ \E id \in SessionIds : DeleteSession(id)
  \/ \E id \in SessionIds : CreateSnapshot(id)
  \/ \E id \in SessionIds : ExportSession(id)
  \/ ImportSession

SpecCap == Init /\ [][NextCap]_vars

\* C1: over createSession calls alone the number of live sessions never
\* exceeds maxSessions; every call succeeds and inserts the new session; a
\* call evicts at most one session, and that one had the smallest
\* lastActivity of the sessions live at the call (the earliest-created of
\* those that tie).
C1_CreateStep ==
  last'.op = "createSession" =>
    /\ last'.out = "ok"
    /\ ~MapHas(sessions, last'.id)
    /\ MapHas(sessions', last'.id)
    /\ MapGet(sessions', last'.id).id = last'.id
    /\ MapKeys(sessions') \subseteq MapKeys(sessions) \cup {last'.id}
    /\ LET gone == MapKeys(sessions) \ MapKeys(sessions')
       IN /\ Cardinality(gone) <= 1
          /\ \A g \in gone : \A i \in 1..Len(sessions) :
               LET e == sessions[i].v
                   ge == MapGet(sessions, g)
               IN /\ ge.lastActivity <= e.lastActivity
                  /\ ge.lastActivity = e.lastActivity => ge.id <= e.id

C1_SessionCap ==
  /\ [](Len(sessions) <= MaxSessions)
  /\ [][C1_CreateStep]_vars

\* A call has just evicted: more sessions were created than the cap holds,
\* the registry is full and the first session is gone.
C1_Witness ==
  /\ last.op = "createSession"
  /\ last.id > MaxSessions
  /\ Len(sessions) = MaxSessions
  /\ ~MapHas(sessions, 1)
  /\ MapHas(sessions, last.id)

\* C2: once createSnapshot has been called more than maxSnapshots times on a
\* live session, listSnapshots holds exactly maxSnapshots entries, and they
\* are the snapshots of the last maxSnapshots calls, in creation order.
C2_SnapshotCap ==
  \A id \in MapKeys(sessions) :
    Len(snapLog[id]) > MaxSnapshots =>
      LET list == ListSnapshots(snapshots, id)
          made == snapLog[id]
      IN /\ Len(list) = MaxSnapshots
         /\ \A j \in 1..MaxSnapshots :
              list[j].id = made[Len(made) - MaxSnapshots + j]

\* A live session on which createSnapshot was called maxSnapshots + 1 times
\* or more, the last call having just returned.
C2_Witness ==
  /\ last.op = "createSnapshot"
  /\ last.out = "ok"
  /\ MapHas(sessions, last.id)
  /\ Len(snapLog[last.id]) > MaxSnapshots
  /\ Len(ListSnapshots(snapshots, last.id)) = MaxSnapshots

\* Every snapshot the snapshot registry holds.
StoredSnapshots(s) ==
  { s[i].v[j] : <<i, j>> \in { <<a, b>> \in (1..Len(s)) \X (1..MaxIds + MaxSnapIds) :
                                 b <= Len(s[a].v) } }

\* After rollbackToSnapshot(s.id) has returned, getSession(s.sessionId) is a
\* session whose context equals s.state.context.
C3_RollbackRestores ==
  (last.op = "rollbackToSnapshot" /\ last.out = "ok") =>
    \A snapshot \in StoredSnapshots(snapshots) :
      snapshot.id = last.id =>
        /\ MapHas(sessions, snapshot.sessionId)
        /\ MapGet(sessions, snapshot.sessionId).context = snapshot.state.context

\* A step leaves the state held by every snapshot that stays stored as it was.
C3_SnapshotFrozen ==
  \A i \in 1..Len(snapshots) : \A j \in 1..Len(snapshots[i].v) :
    \A snapshot \in StoredSnapshots(snapshots') :
      (snapshot.id = snapshots[i].v[j].id
         /\ snapshot.sessionId = snapshots[i].v[j].sessionId)
        => snapshot.state = snapshots[i].v[j].state

\* C3: for every stored snapshot s, rollbackToSnapshot(s.id) followed by
\* getSession(s.sessionId) returns a session whose context equals
\* s.state.context, and no later step (addToContext, updateMetrics,
\* updateSession, a rollback) changes s.state.
C3_RollbackAndFreeze ==
  /\ [](C3_RollbackRestores)
  /\ [][C3_SnapshotFrozen]_vars

\* Whether a collection has a member or a counted tool.
NonEmptyCollections(metrics) ==
  /\ metrics.uniqueDomainsUsed.kind = "Set"
  /\ metrics.uniqueDomainsUsed.members # {}
  /\ metrics.toolUsage.kind = "Map"
  /\ \E t \in Tools : metrics.toolUsage.counts[t] > 0

\* The last call was a successful rollback to a snapshot captured while the
\* session's uniqueDomainsUsed set and toolUsage map were both non-empty.
RolledBackToNonEmpty ==
  /\ last.op = "rollbackToSnapshot"
  /\ last.out = "ok"
  /\ captured[last.id] # None
  /\ NonEmptyCollections(captured[last.id])

\* The restored session has the members and the counts of capture time.
C4_Restored ==
  RolledBackToNonEmpty =>
    LET restored == MapGet(sessions, last.ret).metrics
    IN /\ restored.uniqueDomainsUsed.members
            = captured[last.id].uniqueDomainsUsed.members
       /\ restored.toolUsage.counts = captured[last.id].toolUsage.counts

\* updateMetrics('domain', d) and updateMetrics('toolUsage', t) succeed on
\* the restored session.
C4_StillUpdatable ==
  (RolledBackToNonEmpty /\ last'.op = "updateMetrics" /\ last'.id = last.ret)
    => last'.out = "ok"

\* C4: for a session whose uniqueDomainsUsed set and toolUsage map are
\* non-empty at capture time, createSnapshot followed (after any further
\* updateMetrics calls) by rollbackToSnapshot restores a live session whose
\* set has the same members and whose map has the same per-tool counts as at
\* capture time, and on which updateMetrics('domain', d) and
\* updateMetrics('toolUsage', t) still succeed.
C4_SnapshotKeepsCollections ==
  /\ [](C4_Restored)
  /\ [][C4_StillUpdatable]_vars

\* A step never lowers the lastActivity of a session that stays live, and a
\* step that changes such a session sets its lastActivity to the current time.
C5_Step ==
  \A k \in MapKeys(sessions) \cap MapKeys(sessions') :
    /\ MapGet(sessions', k).lastActivity >= MapGet(sessions, k).lastActivity
    /\ MapGet(sessions', k) # MapGet(sessions, k)
         => MapGet(sessions', k).lastActivity = now'

\* C5: lastActivity of a live session is non-decreasing over its whole life:
\* no operation leaves a live session id with a smaller lastActivity than it
\* had before, and every mutation sets it to the current time.
C5_LastActivityMonotonic == [][C5_Step]_vars

\* C6: after updateSession or addToContext has changed a session, the
\* serialized size of its context is at most maxContextSize.
C6_ContextBound ==
  (last.op \in {"updateSession", "addToContext"} /\ last.out = "ok"
     /\ MapHas(sessions, last.id))
    => JsonContextLen(MapGet(sessions, last.id).context) <= MaxContextSize

\* The ids of the snapshots listed under a session id.
SnapshotIdsOf(s, sessionId) ==
  { ListSnapshots(s, sessionId)[j].id :
      j \in 1..Len(ListSnapshots(s, sessionId)) }

\* One removing step: the return value of deleteSession, and what is left of
\* every session the step removed.
C7_Step ==
  /\ last'.op = "deleteSession" =>
       /\ last'.ret = (IF MapHas(sessions, last'.id) THEN 1 ELSE 0)
       /\ ~MapHas(sessions', last'.id)
  /\ last'.op \in {"deleteSession", "createSession", "cleanupInactiveSessions"} =>
       \A k \in MapKeys(sessions) \ MapKeys(sessions') :
         /\ ListSnapshots(snapshots', k) = << >>
         /\ \A sid \in SnapshotIdsOf(snapshots, k) :
              FindSnapshotEntry(snapshots', sid) = 0

\* C7: deleteSession(id) returns true exactly when id was live, and afterwards
\* getSession(id) is null, listSnapshots(id) is empty and rollbackToSnapshot
\* finds none of the snapshot ids that belonged to the session; the same when
\* the session is removed by the eviction of createSession or by
\* cleanupInactiveSessions.
C7_DeleteCascades == [][C7_Step]_vars

\* A step brings back no id that was handed out and is gone, and a creating
\* step hands out an id that was never used.
C8_Step ==
  /\ \A id \in 1..(nextId - 1) :
       ~MapHas(sessions, id) => ~MapHas(sessions', id)
  /\ last'.op \in {"createSession", "importSession"} =>
       /\ last'.id >= nextId
       /\ ~MapHas(sessions, last'.id)

\* C8: DELETED is terminal: once a session id has been removed from the
\* registry, getSession(id) is null in every later state, whatever
\* createSession, importSession, rollbackToSnapshot, saveState and loadState
\* follow; createSession and importSession produce an id never used before.
C8_DeletedIsTerminal == [][C8_Step]_vars

\* One sweep, measured against the registry it started from.
C9_Step ==
  last'.op = "cleanupInactiveSessions" =>
    LET T == last'.id
        gone == { k \in MapKeys(sessions) :
                    now - MapGet(sessions, k).lastActivity > T }
    IN /\ MapKeys(sessions') = MapKeys(sessions) \ gone
       /\ MapKeys(snapshots') = MapKeys(snapshots) \ gone
       /\ \A k \in MapKeys(sessions') :
            /\ MapGet(sessions', k) = MapGet(sessions, k)
            /\ ListSnapshots(snapshots', k) = ListSnapshots(snapshots, k)
       /\ last'.ret = Cardinality(gone)
       /\ (last.op = "cleanupInactiveSessions" /\ last.id = T) =>
            /\ last'.ret = 0
            /\ sessions' = sessions
            /\ snapshots' = snapshots

\* C9: cleanupInactiveSessions(T) removes exactly the sessions with
\* now - lastActivity > T together with their snapshots, leaves every other
\* session and its snapshots unchanged, and returns the number it removed; a
\* second call at the same instant removes nothing and returns 0.
C9_CleanupExact == [][C9_Step]_vars

\* A sweep has just removed a session and kept another one and its snapshots.
C9_Witness ==
  /\ last.op = "cleanupInactiveSessions"
  /\ last.ret >= 1
  /\ Len(sessions) >= 1
  /\ Len(snapshots) >= 1

\* The operations that throw on a session id that is not live.
StrictOps ==
  {"updateSession", "createSnapshot", "exportSession", "getSessionReport",
   "getSessionHealth"}

\* One strict call on an id that is not there.
C10_Step ==
  ( \/ last'.op \in StrictOps /\ ~MapHas(sessions, last'.id)
    \/ /\ last'.op = "rollbackToSnapshot"
       /\ \A snapshot \in StoredSnapshots(snapshots) : snapshot.id # last'.id )
    => /\ last'.out = "NotFound"
       /\ sessions' = sessions
       /\ snapshots' = snapshots

\* C10: updateSession, createSnapshot, exportSession, getSessionReport and
\* getSessionHealth called with a session id that is not live, and
\* rollbackToSnapshot called with a snapshot id no list holds, fail with a
\* not-found error and leave the session registry and the snapshot registry
\* exactly as they were.
C10_StrictNotFound == [][C10_Step]_vars

\* A strict operation has just failed on the id of a deleted session while
\* another session and its snapshots are live.
C10_Witness ==
  /\ last.op \in StrictOps
  /\ last.out = "NotFound"
  /\ last.id \in 1..(nextId - 1)
  /\ Len(sessions) >= 1
  /\ Len(snapshots) >= 1

\* One addToContext or updateMetrics call on a session id that is not live.
C11_Step ==
  (last'.op \in {"addToContext", "updateMetrics"}
     /\ ~MapHas(sessions, last'.id))
    => /\ last'.out = "ok"
       /\ sessions' = sessions
       /\ snapshots' = snapshots

\* C11: addToContext and updateMetrics called with a session id that is not
\* live return normally and leave the session registry and the snapshot
\* registry exactly as before: no session is created, no other is touched.
C11_SilentNoOp == [][C11_Step]_vars

\* addToContext or updateMetrics has just returned on an id that is not
\* live while a session and a snapshot are stored.
C11_Witness ==
  /\ last.op \in {"addToContext", "updateMetrics"}
  /\ ~MapHas(sessions, last.id)
  /\ last.out = "ok"
  /\ Len(sessions) >= 1
  /\ Len(snapshots) >= 1

\* An importSession that directly follows the exportSession of a live session.
C12_Step ==
  (last.op = "exportSession" /\ last.out = "ok"
     /\ last'.op = "importSession")
    => LET S == MapGet(sessions, last.id)
           imported == MapGet(sessions', last'.id)
       IN /\ imported.userId = S.userId
          /\ imported.context.currentProblem = S.context.currentProblem
          /\ imported.metrics.uniqueDomainsUsed.kind = "Set"
          /\ imported.metrics.uniqueDomainsUsed.members
               = S.metrics.uniqueDomainsUsed.members
          /\ imported.metrics.toolUsage.kind = "Map"
          /\ imported.metrics.toolUsage.counts = S.metrics.toolUsage.counts
          /\ imported.id = last'.id
          /\ imported.id # S.id
          /\ last'.id # last.id
          /\ MapGet(sessions', last.id) = S

\* C12: for every live session S, importSession(exportSession(S.id)) yields a
\* session with the same userId and context.currentProblem, with
\* uniqueDomainsUsed a set of the same members and toolUsage a mapping of the
\* same per-tool counts, and with an id different from S.id; S itself is
\* unchanged by the import.
C12_ExportImport == [][C12_Step]_vars

\* A session with a problem, a domain and a counted tool has just been
\* exported and imported.
C12_Witness ==
  /\ last.op = "importSession"
  /\ MapHas(sessions, last.id)
  /\ MapGet(sessions, last.id).context.currentProblem = "p"
  /\ MapGet(sessions, last.id).metrics.uniqueDomainsUsed.members = {"d1"}
  /\ MapGet(sessions, last.id).metrics.toolUsage.counts["evolve_idea_with_structure"] = 1
  /\ Len(sessions) >= 2

\* C13: after importSession of a document that carries snapshots, every
\* snapshot listed under the new session id has the new id as its sessionId,
\* and rollbackToSnapshot yields a session stored under a key that is also
\* its id field (for an imported snapshot the new id, never the exported one).
C13_SnapshotsReassociated ==
  /\ last.op = "importSession" =>
       \A j \in 1..Len(ListSnapshots(snapshots, last.id)) :
         ListSnapshots(snapshots, last.id)[j].sessionId = last.id
  /\ (last.op = "rollbackToSnapshot" /\ last.out = "ok") =>
       /\ MapHas(sessions, last.ret)
       /\ MapGet(sessions, last.ret).id = last.ret

\* The positions <<entry, index>> of the snapshot registry.
SnapshotPositions(s) ==
  { pos \in (1..Len(s)) \X (1..MaxIds + MaxSnapIds) : pos[2] <= Len(s[pos[1]].v) }

\* C14: snapshot ids are globally unique: no two snapshots of the snapshot
\* registry, within one session or across sessions, have the same id, after
\* any sequence of createSnapshot, exportSession and importSession.
C14_SnapshotIdsUnique ==
  \A a, b \in SnapshotPositions(snapshots) :
    a # b => snapshots[a[1]].v[a[2]].id # snapshots[b[1]].v[b[2]].id

\* A loadState that directly follows a saveState.
C15_Step ==
  (last.op = "saveState" /\ last.out = "ok" /\ last'.op = "loadState")
    => /\ MapKeys(sessions') = MapKeys(sessions)
       /\ snapshots' = snapshots
       /\ \A k \in MapKeys(sessions) :
            LET before == MapGet(sessions, k)
                after == MapGet(sessions', k)
            IN /\ after.context = before.context
               /\ after.metrics.totalGenerations
                    = before.metrics.totalGenerations
               /\ after.metrics.averageMadnessIndex
                    = before.metrics.averageMadnessIndex
               /\ after.metrics.successfulHybrids
                    = before.metrics.successfulHybrids
               /\ after.metrics.uniqueDomainsUsed.members
                    = before.metrics.uniqueDomainsUsed.members
               /\ after.metrics.toolUsage.counts
                    = before.metrics.toolUsage.counts

\* C15: saveState followed by loadState with no mutation in between restores
\* the whole registry: the same session ids, the same snapshot lists, and for
\* every session the same context and the same metrics, the members of
\* uniqueDomainsUsed and the per-tool counts of toolUsage included.
C15_SaveLoadRestores == [][C15_Step]_vars

\* C16: when the PersistenceHandler fails, saveState and loadState catch the
\* failure: neither propagates an error to its caller (shutdown included),
\* and the session and snapshot registries are left unchanged.
C16_PersistenceFailureCaught ==
  [][(SaveStateFailing \/ LoadStateFailing \/ ShutdownFailing)
       => /\ last'.out = "ok"
          /\ sessions' = sessions
          /\ snapshots' = snapshots]_vars

\* One compressOldSnapshots(id, keepLast) call, measured against the list it
\* started from.
C17_Step ==
  \A id \in AnySessionId, keepLast \in KeepLast :
    CompressOldSnapshots(id, keepLast) =>
      LET list == ListSnapshots(snapshots, id)
          n == Len(list)
          kept == IF n <= keepLast THEN n ELSE keepLast
      IN /\ ListSnapshots(snapshots', id) = SubSeq(list, n - kept + 1, n)
         /\ \A other \in AnySessionId \ {id} :
              ListSnapshots(snapshots', other) = ListSnapshots(snapshots, other)

\* C17: for every session with n snapshots and every keepLast >= 0, after
\* compressOldSnapshots(id, keepLast) listSnapshots(id) holds exactly the
\* min(n, keepLast) most recent snapshots in their original order (keepLast
\* = 0 leaves none), and no other session's snapshots change.
C17_CompressKeepsLast == [][C17_Step]_vars

\* trimmed holds the last Len(trimmed) items of original, in their order.
IsSuffix(trimmed, original) ==
  /\ Len(trimmed) <= Len(original)
  /\ trimmed = SubSeq(original, Len(original) - Len(trimmed) + 1, Len(original))

C18_Trimmed(context, maxSize) ==
  LET trimmed == trimContext(context, maxSize)
  IN IF JsonContextLen(context) <= maxSize
     THEN trimmed = context
     ELSE /\ trimmed.currentProblem = context.currentProblem
          /\ IsSuffix(trimmed.generatedLenses, context.generatedLenses)
          /\ IsSuffix(trimmed.evolutionChains, context.evolutionChains)
          /\ IsSuffix(trimmed.hybridAttempts, context.hybridAttempts)

\* C18: for every context a session holds and every maxSize, trimContext
\* returns the context unchanged when its serialized length is at most
\* maxSize, and otherwise a context with the same currentProblem in which
\* lenses, evolution chains and hybrid attempts are each a suffix of the
\* original array (never longer, the most recent items, order kept).
C18_TrimKeepsSuffix ==
  \A i \in 1..Len(sessions), maxSize \in MaxSizes :
    C18_Trimmed(sessions[i].v.context, maxSize)

\* Some session holds two different lenses and some maxSize cuts them to the
\* newer one.
C18_Witness ==
  \E i \in 1..Len(sessions), maxSize \in MaxSizes :
    LET context == sessions[i].v.context
        trimmed == trimContext(context, maxSize)
    IN /\ Len(context.generatedLenses) = 2
       /\ context.generatedLenses[1] # context.generatedLenses[2]
       /\ JsonContextLen(context) > maxSize
       /\ trimmed.generatedLenses = <<context.generatedLenses[2]>>

\* The log is a run of pairs: a totalGenerations call, then a madnessIndex call.
Paired(log) ==
  /\ Len(log) % 2 = 0
  /\ \A j \in 1..Len(log) :
       log[j].metric = (IF j % 2 = 1 THEN "totalGenerations" ELSE "madnessIndex")

\* The sum of the values of the madnessIndex calls of the log.
MadnessSum(log) ==
  LET Sum[j \in 0..Len(log)] ==
        IF j = 0 THEN 0
        ELSE Sum[j - 1] + (IF log[j].metric = "madnessIndex"
                           THEN log[j].value ELSE 0)
  IN Sum[Len(log)]

Bumps(log) ==
  Cardinality({ j \in 1..Len(log) : log[j].metric = "totalGenerations" })

\* C19: on a fresh session whose madnessIndex calls were each immediately
\* preceded by exactly one totalGenerations call, after the n-th pair
\* averageMadnessIndex is the arithmetic mean of the n values and
\* totalGenerations is n (4 then 6 give 5); and in every order of calls
\* totalGenerations is the number of totalGenerations calls, whatever value
\* they passed.
C19_RunningMean ==
  \A i \in 1..Len(sessions) :
    LET log == metricLog[sessions[i].k]
        metrics == sessions[i].v.metrics
        n == Len(log) \div 2
    IN /\ metrics.totalGenerations = Bumps(log)
       /\ Paired(log) =>
            /\ metrics.totalGenerations = n
            /\ n > 0 => metrics.averageMadnessIndex = Fraction(MadnessSum(log), n)

\* Two pairs with the values 4 and 6 were served and the average is 5.
C19_Witness ==
  \E i \in 1..Len(sessions) :
    LET log == metricLog[sessions[i].k]
    IN /\ Paired(log)
       /\ Len(log) = 4
       /\ log[2].value = 4
       /\ log[4].value = 6
       /\ log[1].value # log[3].value
       /\ sessions[i].v.metrics.averageMadnessIndex = [num |-> 5, den |-> 1]
       /\ sessions[i].v.metrics.totalGenerations = 2

\* a <= b for fractions with positive denominators.
FractionLeq(a, b) == a.num * b.den <= b.num * a.den

C20_InRange(session) ==
  /\ session.startTime <= session.lastActivity
  /\ session.lastActivity <= now
  /\ session.metrics.totalGenerations >= 0
  /\ FractionLeq([num |-> 0, den |-> 1], session.metrics.averageMadnessIndex)
  /\ FractionLeq(session.metrics.averageMadnessIndex, [num |-> 10, den |-> 1])

\* C20: under createSession, addToContext, updateMetrics (madnessIndex
\* values within 0..10, in any order with the totalGenerations calls),
\* createSnapshot and rollbackToSnapshot every live session keeps
\* startTime <= lastActivity <= now, totalGenerations >= 0 and
\* 0 <= averageMadnessIndex <= 10.
C20_SessionInvariants ==
  \A i \in 1..Len(sessions) : C20_InRange(sessions[i].v)

\* A rollback has just restored a session that was active after its start,
\* counts a generation and holds the largest average.
C20_Witness ==
  /\ last.op = "rollbackToSnapshot"
  /\ last.out = "ok"
  /\ \E i \in 1..Len(sessions) :
       /\ sessions[i].v.startTime < sessions[i].v.lastActivity
       /\ sessions[i].v.metrics.totalGenerations >= 1
       /\ sessions[i].v.metrics.averageMadnessIndex = [num |-> 10, den |-> 1]
       /\ Len(metricLog[sessions[i].k]) = MaxFewCalls

\* What the claim calls a violation: a negative totalGenerations, an
\* averageMadnessIndex outside [0, 10], a startTime later than lastActivity
\* or than now.
C21_Violates(session) ==
  \/ session.metrics.totalGenerations < 0
  \/ ~FractionLeq([num |-> 0, den |-> 1], session.metrics.averageMadnessIndex)
  \/ ~FractionLeq(session.metrics.averageMadnessIndex, [num |-> 10, den |-> 1])
  \/ session.startTime > session.lastActivity
  \/ session.startTime > now

C21_Step ==
  \A id \in AnySessionId :
    ValidateSessionIntegrity(id) =>
      /\ last'.out = "ok"
      /\ ~MapHas(sessions, id) => last'.ret = 0
      /\ MapHas(sessions, id) =>
           last'.ret = (IF C21_Violates(MapGet(sessions, id)) THEN 0 ELSE 1)

C22_ChainsWellFormed ==
  \A i \in 1..Len(sessions) :
    LET chains == sessions[i].v.context.evolutionChains
    IN /\ \A a, b \in 1..Len(chains) :
            chains[a].originalIdea = chains[b].originalIdea => a = b
       /\ \A a \in 1..Len(chains) :
            chains[a].currentStage = Len(chains[a].stages) - 1

\* One evolution call on a live session: the chain of the idea gains the
\* stage at its end, or a new chain with that one stage is appended; every
\* other chain is as it was.
C22_Step ==
  \A id \in SessionIds, d \in EvolutionSteps :
    MapHas(sessions, id) /\ AddToContext(id, "evolution", d) =>
      LET old == MapGet(sessions, id).context.evolutionChains
          new == MapGet(sessions', id).context.evolutionChains
          at == { a \in 1..Len(old) : old[a].originalIdea = d.originalIdea }
      IN IF at = {}
         THEN new = Append(old, [originalIdea |-> d.originalIdea,
                                 stages |-> <<d.stage>>,
                                 currentStage |-> 0])
         ELSE /\ Len(new) = Len(old)
              /\ \A a \in 1..Len(old) :
                   /\ new[a].originalIdea = old[a].originalIdea
                   /\ new[a].stages = (IF a \in at
                                       THEN Append(old[a].stages, d.stage)
                                       ELSE old[a].stages)

\* C22: after any sequence of addToContext(id, 'evolution', {originalIdea,
\* stage}) calls the evolution chains of the session hold each originalIdea
\* at most once, each chain's stages are the stages recorded for its idea in
\* call order, and each chain's current stage index is its number of stages
\* minus one; a call for a new idea appends one chain with one stage and
\* index 0.
C22_EvolutionChains == [](C22_ChainsWellFormed) /\ [][C22_Step]_vars

\* An idea was evolved twice: one chain, its two stages in call order, the
\* index on the second.
C22_Witness ==
  /\ last.op = "addToContext"
  /\ \E i \in 1..Len(sessions) :
       LET chains == sessions[i].v.context.evolutionChains
       IN /\ Len(chains) = 1
          /\ Len(chains[1].stages) = 2
          /\ chains[1].stages[1].stage = 2
          /\ chains[1].stages[2].stage = 1
          /\ chains[1].currentStage = 1

\* partial.context[field] || [], [] too when the partial has no context.
C23_Supplied(partial, field) ==
  IF "context" \in DOMAIN partial
  THEN OrEmpty(partial.context, field) ELSE << >>

\* partial[group][key] when the partial supplies it, the old value otherwise.
C23_Overwritten(old, partial, group, key) ==
  IF group \in DOMAIN partial /\ key \in DOMAIN partial[group]
  THEN partial[group][key] ELSE old[group][key]

\* The context the merge is to produce.
C23_Merged(old, partial) ==
  [ old.context EXCEPT
      !.generatedLenses = @ \o C23_Supplied(partial, "generatedLenses"),
      !.evolutionChains = @ \o C23_Supplied(partial, "evolutionChains"),
      !.hybridAttempts = @ \o C23_Supplied(partial, "hybridAttempts") ]

C23_Step ==
  \A id \in SessionIds, partial \in MergePartials :
    ( /\ MapHas(sessions, id)
      /\ UpdateSession(id, partial)
      /\ JsonContextLen(C23_Merged(MapGet(sessions, id), partial))
           <= MaxContextSize ) =>
      LET old == MapGet(sessions, id)
          new == MapGet(sessions', id)
          supplied(group) ==
            IF group \in DOMAIN partial THEN DOMAIN partial[group] ELSE {}
      IN /\ new.context = C23_Merged(old, partial)
         /\ DOMAIN new.metrics = DOMAIN old.metrics \cup supplied("metrics")
         /\ \A key \in DOMAIN new.metrics :
              new.metrics[key] = C23_Overwritten(old, partial, "metrics", key)
         /\ DOMAIN new.preferences
              = DOMAIN old.preferences \cup supplied("preferences")
         /\ \A key \in DOMAIN new.preferences :
              new.preferences[key]
                = C23_Overwritten(old, partial, "preferences", key)
         /\ new.lastActivity = now
         /\ new.id = old.id
         /\ new.userId = old.userId
         /\ new.startTime = old.startTime
         /\ snapshots' = snapshots
         /\ MapKeys(sessions') = MapKeys(sessions)
         /\ \A other \in MapKeys(sessions) \ {id} :
              MapGet(sessions', other) = MapGet(sessions, other)

\* C23: updateSession(id, partial) on a live session whose merged context
\* stays within maxContextSize sets each context sub-collection to the old
\* sequence followed by the partial's, overwrites only the metrics and
\* preferences keys the partial supplies, sets lastActivity to now and keeps
\* id, userId and startTime whatever the partial supplies for them; the
\* snapshots and every other session are unchanged.
C23_UpdateMerges == [][C23_Step]_vars

\* An update made after the session was created and snapshotted left two
\* lenses in it, next to a second session.
C23_Witness ==
  /\ last.op = "updateSession"
  /\ last.out = "ok"
  /\ Len(sessions) = 2
  /\ Len(snapshots) = 1
  /\ LET session == MapGet(sessions, last.id)
     IN /\ Len(session.context.generatedLenses) = 2
        /\ JsonContextLen(session.context) <= MaxContextSize
        /\ session.lastActivity > session.startTime
        /\ session.userId = "u1"
        /\ "targetMadnessLevel" \in DOMAIN session.preferences
        /\ session.metrics.successfulHybrids = 1

\* session.metrics.toolUsage.get(tool) || 0, 0 too when toolUsage is no Map.
C24_Usage(m, id, tool) == MapGet(m, id).metrics.toolUsage.counts[tool]

C24_Step ==
  \A tool \in Tools, contextId, argsId \in Supplied :
    BeforeToolExecution(tool, contextId, argsId) =>
      LET supplied == ResolvedId(contextId, argsId)
      IN CASE supplied = Absent ->
                /\ last'.out = "ok"
                /\ MapHas(sessions', last'.ret)
                /\ MapKeys(sessions') \ MapKeys(sessions) = {last'.ret}
                /\ MapGet(sessions', last'.ret).userId = "anonymous"
                /\ MapGet(sessions', last'.ret).metrics.toolUsage.kind = "Map"
                /\ C24_Usage(sessions', last'.ret, tool) = 1
           [] supplied # Absent /\ MapHas(sessions, supplied) ->
                /\ last'.out = "ok"
                /\ last'.ret = supplied
                /\ MapKeys(sessions') = MapKeys(sessions)
                /\ MapGet(sessions', supplied).metrics.toolUsage.kind = "Map"
                /\ C24_Usage(sessions', supplied, tool)
                     = C24_Usage(sessions, supplied, tool) + 1
           [] OTHER ->
                /\ last'.out = "NotFound"
                /\ MapKeys(sessions') = MapKeys(sessions)

\* C24: beforeToolExecution(tool, args, context) returns a sessionId that
\* names a live session; with no sessionId in context or args it creates
\* exactly one new 'anonymous' session, with a live sessionId it creates
\* none, and in both cases the session's toolUsage count for the tool rises
\* by exactly 1; with a sessionId that is not live it fails with not-found
\* and creates no session.
C24_HookResolvesSession == [][C24_Step]_vars

\* afterToolExecution for a session id that the hook handed out and that a
\* cleanup tick or an eviction has removed since.
C25_Step ==
  \A tool \in Tools, id \in SessionIds :
    \A result \in ToolResults(tool) :
      ( /\ id < nextId
        /\ ~MapHas(sessions, id)
        /\ AfterToolExecution(tool, result, id) ) =>
          /\ last'.out = "ok"
          /\ ~MapHas(sessions', id)
          /\ ~MapHas(snapshots', id)

\* C25: when the inactivity cleanup tick or a cap eviction deletes a session
\* between a call's beforeToolExecution and its afterToolExecution, the
\* afterToolExecution completes without raising an error for every tool
\* (those that trigger a snapshot included), does not re-create the session
\* and leaves no snapshot list for the deleted id.
C25_AfterHookSurvivesRemoval == [][C25_Step]_vars

\* C26: the auto-save hook is time-gated: over any sequence of tool calls,
\* those whose afterToolExecution hooks overlap while an earlier saveState
\* is still suspended included, any two saveState invocations the hook
\* started are more than the interval apart (so an invocation within the
\* interval of the last save starts none).
C26_SavesSpaced ==
  \A i, j \in 1..Len(autoSave.starts) :
    i < j => autoSave.starts[j] - autoSave.starts[i] > SaveInterval

C27_Step ==
  \A h \in Handles : timers.down => ~(AutoSaveTick(h) \/ CleanupTick(h))

\* C27: after shutdown() has completed no auto-save tick and no cleanup tick
\* of the manager fires again, however many initialize() calls were made
\* before the shutdown.
C27_NoTickAfterShutdown == [][C27_Step]_vars

\* C28: in every reachable state the session stored under a key k of the
\* session registry has id = k, and every snapshot stored under a key k of
\* the snapshot registry has sessionId = k and state.id = k, after any
\* sequence of createSession, updateSession, createSnapshot,
\* rollbackToSnapshot, exportSession and importSession.
C28_KeysMatchIdentities ==
  /\ \A i \in 1..Len(sessions) : sessions[i].v.id = sessions[i].k
  /\ \A i \in 1..Len(snapshots) :
       \A j \in 1..Len(snapshots[i].v) :
         /\ snapshots[i].v[j].sessionId = snapshots[i].k
         /\ snapshots[i].v[j].state.id = snapshots[i].k

\* C29: no orphan snapshots: in every reachable state every key of the
\* snapshot registry is also a key of the session registry, after any
\* sequence of createSession (with eviction), deleteSession,
\* cleanupInactiveSessions, createSnapshot, rollbackToSnapshot,
\* compressOldSnapshots and importSession.
C29_NoOrphanSnapshots == MapKeys(snapshots) \subseteq MapKeys(sessions)

\* createSession has evicted a session that had snapshots, and another
\* session still has its own.
C29_Witness ==
  /\ last.op = "createSession"
  /\ Len(sessions) = MaxSessions
  /\ \E id \in SessionIds :
       /\ Len(snapLog[id]) > 0
       /\ ~MapHas(sessions, id)
       /\ ~MapHas(snapshots, id)
  /\ \E id \in SessionIds :
       MapHas(snapshots, id) /\ Len(MapGet(snapshots, id)) > 0

\* C30: in every reachable state the number of live sessions is at most
\* maxSessions and every session's snapshot list has at most maxSnapshots
\* entries, under any interleaving of createSession, importSession,
\* createSnapshot and deleteSession.
C30_WithinLimits ==
  /\ Len(sessions) <= MaxSessions
  /\ \A i \in 1..Len(snapshots) : Len(snapshots[i].v) <= MaxSnapshots

====
